---- MODULE Spec2Model ----
(***************************************************************************)
(* Career-guidance backend: the skill normalisation, gap detection,        *)
(* roadmap synthesis and skill matching engine of app/ai_engine.           *)
(*                                                                         *)
(* Python str values are TLA+ strings; str.lower() is computed character   *)
(* by character.  A Python float that is the quotient of two small         *)
(* integers is kept as the exact fraction [num, den] in lowest terms.      *)
(***************************************************************************)
EXTENDS Integers, Sequences, FiniteSets, TLC

VARIABLES
  career_goal,      \* the goal argument of the calls
  current_skills,   \* the skills argument of the calls (a list of strings)
  years_exp,        \* the years_exp argument of generate_roadmap
  skill,            \* the argument of normalize_skill
  normalized,       \* what CareerAnalyzer.normalize_skill returned
  matcher_normalized, \* what SkillMatcher.normalize_skill returned
  gap_report,       \* what detect_skill_gaps returned
  trajectory,       \* what map_career_trajectory returned
  roadmap,          \* what generate_roadmap returned
  match_report,     \* what match_skills_to_career returned
  renormalized,     \* what normalize_skill returned for its own result
  recommended,      \* what recommend_projects returned
  resources,        \* what recommend_resources returned
  calls,            \* the concurrent calls: arguments, position and result
  frames,           \* the local variables of the calls that are running
  tables,           \* the tables the calls read
  db,               \* the rows of the users, profiles and roadmaps tables
  response,         \* the last HTTP response, with the request it answers
  outbox,           \* the emails handed to EmailService
  now,              \* datetime.utcnow(), in ticks
  requests          \* the POST /profile requests that are being served

vars == <<career_goal, current_skills, years_exp, skill, normalized,
          matcher_normalized, gap_report, trajectory, roadmap, match_report,
          renormalized, recommended, resources, calls, frames, tables,
          db, response, outbox, now, requests>>

inputs == <<career_goal, current_skills, years_exp, skill>>

\* The results of the calls that are made in some specifications only.
others == <<renormalized, recommended, resources>>

\* The state of the calls that run concurrently.
concurrent == <<calls, frames, tables>>

\* The state of the API layer: the store, the clock and the messages.
api == <<db, response, outbox, now, requests>>

\* The store before any request.
NoRows == [users |-> <<>>, profiles |-> <<>>, roadmaps |-> <<>>]

\* No request has been answered yet.
NoResponse == [route |-> "", status |-> 0]

\* A call that has not returned yet.
NoResult == [returned |-> FALSE]

-----------------------------------------------------------------------------
(* Strings *)

UpperToLower ==
  [A |-> "a", B |-> "b", C |-> "c", D |-> "d", E |-> "e", F |-> "f", G |-> "g",
   H |-> "h", I |-> "i", J |-> "j", K |-> "k", L |-> "l", M |-> "m", N |-> "n",
   O |-> "o", P |-> "p", Q |-> "q", R |-> "r", S |-> "s", T |-> "t", U |-> "u",
   V |-> "v", W |-> "w", X |-> "x", Y |-> "y", Z |-> "z"]

\* str.lower() leaving every character as it is
LowerChar_Identity(c) == c

LowerChar(c) == IF c \in DOMAIN UpperToLower THEN UpperToLower[c] ELSE c

\* str.lower()
RECURSIVE Lower(_)
Lower(s) ==
  IF Len(s) = 0 THEN ""
  ELSE LowerChar(SubSeq(s, 1, 1)) \o Lower(SubSeq(s, 2, Len(s)))

\* sub in s
Contains(s, sub) ==
  \E i \in 1..(Len(s) - Len(sub) + 1) : SubSeq(s, i, i + Len(sub) - 1) = sub

\* dict.get(key, default)
DictGet(d, key, default) == IF key \in DOMAIN d THEN d[key] ELSE default

\* The elements of a list, as a set.
Range(seq) == {seq[i] : i \in DOMAIN seq}

\* lst[lo:hi] with 0 <= lo (Python slice, end clipped to the length)
Slice(lst, lo, hi) ==
  LET h == IF hi < Len(lst) THEN hi ELSE Len(lst)
  IN  IF lo >= h THEN <<>> ELSE SubSeq(lst, lo + 1, h)

RECURSIVE GCD(_, _)
GCD(a, b) == IF b = 0 THEN a ELSE GCD(b, a % b)

\* The float n / d (d > 0), as an exact fraction in lowest terms.
Frac(n, d) ==
  LET g == GCD(n, d) IN [num |-> n \div g, den |-> d \div g]

\* What a call gives when a division by zero is raised in it.
ZeroDivisionError == [returned |-> FALSE, raised |-> "ZeroDivisionError"]

\* The call was ended by an exception.
Raised(result) == "raised" \in DOMAIN result

\* n / d
Divide(n, d) == IF d = 0 THEN ZeroDivisionError ELSE Frac(n, d)

-----------------------------------------------------------------------------
(* CareerAnalyzer *)

\* skill_aliases with one more entry, whose key is a canonical name
skill_aliases_SqlKey ==
     "mysql" :> "SQL"
  @@ "postgresql" :> "SQL"
  @@ "postgres" :> "SQL"
  @@ "oracle" :> "SQL"
  @@ "mssql" :> "SQL"
  @@ "sql server" :> "SQL"
  @@ "mariadb" :> "SQL"
  @@ "tensorflow" :> "Deep Learning"
  @@ "pytorch" :> "Deep Learning"
  @@ "keras" :> "Deep Learning"
  @@ "react" :> "Frontend Framework"
  @@ "vue" :> "Frontend Framework"
  @@ "angular" :> "Frontend Framework"
  @@ "svelte" :> "Frontend Framework"
  @@ "aws" :> "Cloud Platform"
  @@ "gcp" :> "Cloud Platform"
  @@ "google cloud" :> "Cloud Platform"
  @@ "azure" :> "Cloud Platform"
  @@ "microsoft azure" :> "Cloud Platform"
  @@ "docker" :> "Container"
  @@ "kubernetes" :> "Container"
  @@ "k8s" :> "Container"
  @@ "mongodb" :> "NoSQL"
  @@ "cassandra" :> "NoSQL"
  @@ "dynamodb" :> "NoSQL"
  @@ "redis" :> "NoSQL"
  @@ "scikit-learn" :> "Machine Learning"
  @@ "scikit_learn" :> "Machine Learning"
  @@ "sklearn" :> "Machine Learning"
  @@ "xgboost" :> "Machine Learning"
  @@ "lightgbm" :> "Machine Learning"
  @@ "pandas" :> "Data Processing"
  @@ "numpy" :> "Data Processing"
  @@ "scipy" :> "Data Processing"
  @@ "fastapi" :> "API Framework"
  @@ "flask" :> "API Framework"
  @@ "django" :> "API Framework"
  @@ "express" :> "API Framework"
  @@ "node.js" :> "API Framework"
  @@ "nodejs" :> "API Framework"
  @@ "sql" :> "Database"

\* self.skill_aliases
skill_aliases ==
     "mysql" :> "SQL"
  @@ "postgresql" :> "SQL"
  @@ "postgres" :> "SQL"
  @@ "oracle" :> "SQL"
  @@ "mssql" :> "SQL"
  @@ "sql server" :> "SQL"
  @@ "mariadb" :> "SQL"
  @@ "tensorflow" :> "Deep Learning"
  @@ "pytorch" :> "Deep Learning"
  @@ "keras" :> "Deep Learning"
  @@ "react" :> "Frontend Framework"
  @@ "vue" :> "Frontend Framework"
  @@ "angular" :> "Frontend Framework"
  @@ "svelte" :> "Frontend Framework"
  @@ "aws" :> "Cloud Platform"
  @@ "gcp" :> "Cloud Platform"
  @@ "google cloud" :> "Cloud Platform"
  @@ "azure" :> "Cloud Platform"
  @@ "microsoft azure" :> "Cloud Platform"
  @@ "docker" :> "Container"
  @@ "kubernetes" :> "Container"
  @@ "k8s" :> "Container"
  @@ "mongodb" :> "NoSQL"
  @@ "cassandra" :> "NoSQL"
  @@ "dynamodb" :> "NoSQL"
  @@ "redis" :> "NoSQL"
  @@ "scikit-learn" :> "Machine Learning"
  @@ "scikit_learn" :> "Machine Learning"
  @@ "sklearn" :> "Machine Learning"
  @@ "xgboost" :> "Machine Learning"
  @@ "lightgbm" :> "Machine Learning"
  @@ "pandas" :> "Data Processing"
  @@ "numpy" :> "Data Processing"
  @@ "scipy" :> "Data Processing"
  @@ "fastapi" :> "API Framework"
  @@ "flask" :> "API Framework"
  @@ "django" :> "API Framework"
  @@ "express" :> "API Framework"
  @@ "node.js" :> "API Framework"
  @@ "nodejs" :> "API Framework"

\* normalize_skill returning the lower-cased skill when it is no alias
normalize_skill_LowersMiss(s) ==
  LET skill_lower == Lower(s)
  IN  IF skill_lower \in DOMAIN skill_aliases
      THEN skill_aliases[skill_lower]
      ELSE skill_lower

\* CareerAnalyzer.normalize_skill
normalize_skill(s) ==
  LET skill_lower == Lower(s)
  IN  IF skill_lower \in DOMAIN skill_aliases
      THEN skill_aliases[skill_lower]
      ELSE s

career_skill_map ==
     "machine learning engineer" :> <<"Python", "Deep Learning", "Statistics", "SQL", "Data Processing">>
  @@ "machine learning" :> <<"Python", "Deep Learning", "Statistics", "SQL", "Data Processing">>
  @@ "ml engineer" :> <<"Python", "Deep Learning", "Statistics", "SQL", "Data Processing">>
  @@ "ml engineering" :> <<"Python", "Deep Learning", "Statistics", "SQL", "Data Processing">>
  @@ "data scientist" :> <<"Python", "SQL", "Data Processing", "Machine Learning", "Data Visualization">>
  @@ "data science" :> <<"Python", "SQL", "Data Processing", "Machine Learning", "Data Visualization">>
  @@ "full stack developer" :> <<"JavaScript", "Frontend Framework", "API Framework", "SQL", "Container">>
  @@ "fullstack" :> <<"JavaScript", "Frontend Framework", "API Framework", "SQL", "Container">>
  @@ "backend engineer" :> <<"Python", "API Framework", "SQL", "NoSQL", "Cloud Platform">>
  @@ "backend" :> <<"Python", "API Framework", "SQL", "NoSQL", "Cloud Platform">>
  @@ "devops engineer" :> <<"Container", "Cloud Platform", "Linux", "CI/CD", "Infrastructure as Code">>
  @@ "devops" :> <<"Container", "Cloud Platform", "Linux", "CI/CD", "Infrastructure as Code">>
  @@ "frontend engineer" :> <<"JavaScript", "Frontend Framework", "CSS", "HTML", "TypeScript">>
  @@ "frontend" :> <<"JavaScript", "Frontend Framework", "CSS", "HTML", "TypeScript">>
  @@ "cloud architect" :> <<"Cloud Platform", "Container", "Infrastructure as Code", "Database Design", "Security">>
  @@ "cloud" :> <<"Cloud Platform", "Container", "Infrastructure as Code", "Database Design", "Security">>

DefaultNeededSkills == <<"Python", "JavaScript", "SQL">>

\* needed_skills = career_skill_map.get(goal_lower, [...]), with the goal
\* taken as written instead of lower-cased
NeededSkills_CaseSensitive(goal) ==
  DictGet(career_skill_map, goal, DefaultNeededSkills)

\* goal_lower = career_goal.lower()
\* needed_skills = career_skill_map.get(goal_lower, [...])
NeededSkills(goal) ==
  LET goal_lower == Lower(goal)
  IN  DictGet(career_skill_map, goal_lower, DefaultNeededSkills)

\* The loop that fills normalized_current, without normalize_skill
NormalizedCurrent_NoAlias(skills) ==
  {Lower(skills[i]) : i \in DOMAIN skills}

\* The loop that fills normalized_current.
NormalizedCurrent(skills) ==
  {Lower(normalize_skill(skills[i])) : i \in DOMAIN skills}

\* The gap loop, comparing the required skill as written
SkillGaps_CaseSensitive(needed_skills, normalized_current) ==
  SelectSeq(needed_skills, LAMBDA sk : sk \notin normalized_current)

\* The loop that fills gaps: the required skills, in order and as written,
\* whose lower-cased name is not in normalized_current.
SkillGaps(needed_skills, normalized_current) ==
  SelectSeq(needed_skills, LAMBDA sk : Lower(sk) \notin normalized_current)

\* The loop that fills needed_set.
NeededSet(needed_skills) ==
  {Lower(needed_skills[i]) : i \in DOMAIN needed_skills}

\* The percentage, capped at 100
CompletionPercentage_Capped(normalized_current, needed_set) ==
  IF needed_set # {}
  THEN IF Cardinality(normalized_current) > Cardinality(needed_set)
       THEN Frac(100, 1)
       ELSE Divide(Cardinality(normalized_current) * 100, Cardinality(needed_set))
  ELSE Frac(0, 1)

\* ((len(normalized_current) / len(needed_set)) * 100) if needed_set else 0
CompletionPercentage(normalized_current, needed_set) ==
  IF needed_set # {}
  THEN Divide(Cardinality(normalized_current) * 100, Cardinality(needed_set))
  ELSE Frac(0, 1)

\* detect_skill_gaps keeping only the last current skill in normalized_current
detect_skill_gaps_LastSkill(goal, skills) ==
  LET needed_skills == NeededSkills(goal)
      normalized_current ==
        NormalizedCurrent(IF skills = <<>> THEN <<>>
                          ELSE <<skills[Len(skills)]>>)
      gaps == SkillGaps(needed_skills, normalized_current)
      needed_set == NeededSet(needed_skills)
      percentage == CompletionPercentage(normalized_current, needed_set)
  IN  IF Raised(percentage) THEN percentage
      ELSE [returned |-> TRUE,
            career_goal |-> goal,
            current_skills |-> skills,
            skill_gaps |-> gaps,
            proficiency_gaps |-> Len(gaps),
            completion_percentage |-> percentage]

\* CareerAnalyzer.detect_skill_gaps
detect_skill_gaps(goal, skills) ==
  LET needed_skills == NeededSkills(goal)
      normalized_current == NormalizedCurrent(skills)
      gaps == SkillGaps(needed_skills, normalized_current)
      needed_set == NeededSet(needed_skills)
      percentage == CompletionPercentage(normalized_current, needed_set)
  IN  IF Raised(percentage) THEN percentage
      ELSE [returned |-> TRUE,
            career_goal |-> goal,
            current_skills |-> skills,
            skill_gaps |-> gaps,
            proficiency_gaps |-> Len(gaps),
            completion_percentage |-> percentage]

\* trajectories without the key "backend"
trajectories_NoBackend ==
     "machine learning engineer" :> <<"Python Basics", "ML Fundamentals", "Deep Learning", "Advanced NLP", "ML Systems Design">>
  @@ "machine learning" :> <<"Python Basics", "ML Fundamentals", "Deep Learning", "Advanced NLP", "ML Systems Design">>
  @@ "ml engineer" :> <<"Python Basics", "ML Fundamentals", "Deep Learning", "Advanced NLP", "ML Systems Design">>
  @@ "ml engineering" :> <<"Python Basics", "ML Fundamentals", "Deep Learning", "Advanced NLP", "ML Systems Design">>
  @@ "full stack developer" :> <<"Frontend Basics", "Backend Fundamentals", "Database Design", "DevOps", "System Design">>
  @@ "fullstack" :> <<"Frontend Basics", "Backend Fundamentals", "Database Design", "DevOps", "System Design">>
  @@ "data scientist" :> <<"Python & SQL", "Statistics", "Data Visualization", "Machine Learning", "Big Data Tools">>
  @@ "data science" :> <<"Python & SQL", "Statistics", "Data Visualization", "Machine Learning", "Big Data Tools">>
  @@ "backend engineer" :> <<"Python Web Dev", "Database Design", "Microservices", "System Design", "Cloud Deployment">>
  @@ "frontend engineer" :> <<"HTML/CSS Basics", "JavaScript Fundamentals", "React/Framework", "State Management", "Advanced UI/UX">>
  @@ "frontend" :> <<"HTML/CSS Basics", "JavaScript Fundamentals", "React/Framework", "State Management", "Advanced UI/UX">>
  @@ "devops engineer" :> <<"Linux Basics", "Docker/Containers", "Kubernetes", "CI/CD Pipelines", "Infrastructure as Code">>
  @@ "devops" :> <<"Linux Basics", "Docker/Containers", "Kubernetes", "CI/CD Pipelines", "Infrastructure as Code">>
  @@ "cloud architect" :> <<"Cloud Fundamentals", "AWS/Azure Services", "Architecture Patterns", "Security", "Cost Optimization">>
  @@ "cloud" :> <<"Cloud Fundamentals", "AWS/Azure Services", "Architecture Patterns", "Security", "Cost Optimization">>

trajectories ==
     "machine learning engineer" :> <<"Python Basics", "ML Fundamentals", "Deep Learning", "Advanced NLP", "ML Systems Design">>
  @@ "machine learning" :> <<"Python Basics", "ML Fundamentals", "Deep Learning", "Advanced NLP", "ML Systems Design">>
  @@ "ml engineer" :> <<"Python Basics", "ML Fundamentals", "Deep Learning", "Advanced NLP", "ML Systems Design">>
  @@ "ml engineering" :> <<"Python Basics", "ML Fundamentals", "Deep Learning", "Advanced NLP", "ML Systems Design">>
  @@ "full stack developer" :> <<"Frontend Basics", "Backend Fundamentals", "Database Design", "DevOps", "System Design">>
  @@ "fullstack" :> <<"Frontend Basics", "Backend Fundamentals", "Database Design", "DevOps", "System Design">>
  @@ "data scientist" :> <<"Python & SQL", "Statistics", "Data Visualization", "Machine Learning", "Big Data Tools">>
  @@ "data science" :> <<"Python & SQL", "Statistics", "Data Visualization", "Machine Learning", "Big Data Tools">>
  @@ "backend engineer" :> <<"Python Web Dev", "Database Design", "Microservices", "System Design", "Cloud Deployment">>
  @@ "backend" :> <<"Python Web Dev", "Database Design", "Microservices", "System Design", "Cloud Deployment">>
  @@ "frontend engineer" :> <<"HTML/CSS Basics", "JavaScript Fundamentals", "React/Framework", "State Management", "Advanced UI/UX">>
  @@ "frontend" :> <<"HTML/CSS Basics", "JavaScript Fundamentals", "React/Framework", "State Management", "Advanced UI/UX">>
  @@ "devops engineer" :> <<"Linux Basics", "Docker/Containers", "Kubernetes", "CI/CD Pipelines", "Infrastructure as Code">>
  @@ "devops" :> <<"Linux Basics", "Docker/Containers", "Kubernetes", "CI/CD Pipelines", "Infrastructure as Code">>
  @@ "cloud architect" :> <<"Cloud Fundamentals", "AWS/Azure Services", "Architecture Patterns", "Security", "Cost Optimization">>
  @@ "cloud" :> <<"Cloud Fundamentals", "AWS/Azure Services", "Architecture Patterns", "Security", "Cost Optimization">>

DefaultTrajectory == <<"Foundation", "Intermediate", "Advanced", "Expert">>

\* The trajectory of an unknown goal, one step short
Steps_ShortDefault(goal) ==
  DictGet(trajectories, Lower(goal), <<"Foundation", "Intermediate", "Advanced">>)

\* goal_lower = goal.lower(); steps = trajectories.get(goal_lower, [...])
Steps(goal) ==
  LET goal_lower == Lower(goal)
  IN  DictGet(trajectories, goal_lower, DefaultTrajectory)

\* str.strip(), for the space character
RECURSIVE Strip(_)
Strip(s) ==
  IF Len(s) = 0 THEN ""
  ELSE IF SubSeq(s, 1, 1) = " " THEN Strip(SubSeq(s, 2, Len(s)))
  ELSE IF SubSeq(s, Len(s), Len(s)) = " " THEN Strip(SubSeq(s, 1, Len(s) - 1))
  ELSE s

\* map_career_trajectory on the goal without its surrounding spaces
map_career_trajectory_Stripped(goal) ==
  LET steps == Steps(Strip(goal))
  IN  [returned |-> TRUE,
       career_goal |-> goal,
       trajectory_steps |-> steps,
       total_steps |-> Len(steps)]

\* CareerAnalyzer.map_career_trajectory
map_career_trajectory(goal) ==
  LET steps == Steps(goal)
  IN  [returned |-> TRUE,
       career_goal |-> goal,
       trajectory_steps |-> steps,
       total_steps |-> Len(steps)]

-----------------------------------------------------------------------------
(* RoadmapGenerator *)

skill_projects ==
  <<
    <<"Python", <<"Build a CLI Tool", "Web Scraper", "Data Analysis Script">>>>,
    <<"JavaScript", <<"Interactive Web App", "DOM Manipulation Project", "Browser Games">>>>,
    <<"Frontend Framework", <<"Todo App", "Weather Dashboard", "Social Media Feed UI">>>>,
    <<"API Framework", <<"REST API Backend", "User Authentication System", "Microservice">>>>,
    <<"SQL", <<"Complex Queries", "Database Design", "Data Reporting">>>>,
    <<"Deep Learning", <<"Image Classification Model", "Neural Network", "Time Series Prediction">>>>,
    <<"Container", <<"Containerize Application", "Multi-container Setup", "Docker Compose">>>>,
    <<"Cloud Platform", <<"Deploy on Cloud", "Serverless Functions", "Data Pipeline">>>>,
    <<"NoSQL", <<"NoSQL Database Design", "Document Queries", "Data Migration">>>>,
    <<"Statistics", <<"Statistical Analysis", "Hypothesis Testing", "Data Visualization">>>>,
    <<"Machine Learning", <<"Predictive Model", "Feature Engineering", "Model Comparison">>>>,
    <<"Data Processing", <<"Data Cleaning", "Feature Engineering", "Data Pipeline">>>>,
    <<"Data Visualization", <<"Dashboard Creation", "Interactive Charts", "Data Storytelling">>>>,
    <<"CI/CD", <<"Automated Testing", "Deployment Pipeline", "Monitoring Setup">>>>,
    <<"Infrastructure as Code", <<"IaC Configuration", "Terraform Scripts", "Helm Charts">>>>,
    <<"TypeScript", <<"Type-Safe App", "Type Definitions", "Typed Library">>>>,
    <<"HTML", <<"Semantic Markup", "Accessible Pages", "Web Components">>>>,
    <<"CSS", <<"Responsive Design", "CSS Grid Layout", "Animation Effects">>>>,
    <<"Linux", <<"Shell Scripting", "System Administration", "Process Management">>>>
  >>

FallbackProject == "Build a practical project with your new skills"

\* lst[lo:]
SliceFrom(lst, lo) == Slice(lst, lo, Len(lst))

\* project_list[:3]
TopProjects_Three(project_list) == Slice(project_list, 0, 3)

\* project_list[:2]
TopProjects(project_list) == Slice(project_list, 0, 2)

\* key.lower() of every key of skill_projects
KeyLower == [i \in DOMAIN skill_projects |-> Lower(skill_projects[i][1])]

\* The inner loop of _get_projects_for_skills: the projects added for one
\* skill, those of the first catalog key equal to it in lower case.
ProjectsOfSkill(sk) ==
  LET skill_lower == Lower(sk)
      hits == {i \in DOMAIN skill_projects : KeyLower[i] = skill_lower}
  IN  IF hits = {} THEN {}
      ELSE LET first == CHOOSE i \in hits : \A j \in hits : i <= j
           IN  Range(TopProjects(skill_projects[first][2]))

\* The lists of n distinct elements of S.
DistinctLists(S, n) ==
  {f \in [1..n -> S] : \A i, j \in 1..n : i # j => f[i] # f[j]}

\* RoadmapGenerator._get_projects_for_skills: every list the call can
\* return.  list(projects) enumerates a set of strings, whose order Python
\* does not fix, so the first three of any enumeration can be returned.
get_projects_for_skills(skills) ==
  LET projects == UNION {ProjectsOfSkill(skills[i]) : i \in DOMAIN skills}
      n == IF Cardinality(projects) < 3 THEN Cardinality(projects) ELSE 3
  IN  IF projects # {} THEN DistinctLists(projects, n)
      ELSE {<<FallbackProject>>}

\* months = (gap_count + 1) * 2
estimate_duration_OneMore(gap_count) ==
  LET months == (gap_count + 1) * 2
  IN  ToString(months) \o "-" \o ToString(months + 4) \o " weeks"

\* RoadmapGenerator._estimate_duration
estimate_duration(gap_count) ==
  LET months == gap_count * 2
  IN  ToString(months) \o "-" \o ToString(months + 4) \o " weeks"

\* skill_gaps[:3] if skill_gaps else ["Fundamentals"]
Phase1Skills_FirstThree(skill_gaps) ==
  IF skill_gaps # <<>> THEN Slice(skill_gaps, 0, 3) ELSE <<"Fundamentals">>

\* skill_gaps[:2] if skill_gaps else ["Fundamentals"]
Phase1Skills(skill_gaps) ==
  IF skill_gaps # <<>> THEN Slice(skill_gaps, 0, 2) ELSE <<"Fundamentals">>

\* skill_gaps[:2] if skill_gaps else ["Python"]
Phase1ProjectSkills(skill_gaps) ==
  IF skill_gaps # <<>> THEN Slice(skill_gaps, 0, 2) ELSE <<"Python">>

\* skill_gaps[2:4] if len(skill_gaps) > 4 else skill_gaps[3:]
Phase2Skills_FromThree(skill_gaps) ==
  IF Len(skill_gaps) > 4 THEN Slice(skill_gaps, 2, 4)
  ELSE SliceFrom(skill_gaps, 3)

\* skill_gaps[2:4] if len(skill_gaps) > 4 else skill_gaps[2:]
Phase2Skills(skill_gaps) ==
  IF Len(skill_gaps) > 4 THEN Slice(skill_gaps, 2, 4)
  ELSE SliceFrom(skill_gaps, 2)

\* skill_gaps[3:]
Phase3Skills_FromThree(skill_gaps) == SliceFrom(skill_gaps, 3)

\* skill_gaps[4:]
Phase3Skills(skill_gaps) == SliceFrom(skill_gaps, 4)

FoundationPhase(skill_gaps, projects) ==
  [phase_number |-> 1,
   phase_name |-> "Foundation",
   duration |-> "4-6 weeks",
   skills |-> Phase1Skills(skill_gaps),
   projects |-> projects,
   resources |-> <<"YouTube Tutorial", "Official Documentation">>,
   milestones |-> <<"Complete basic tutorials", "First mini-project">>,
   order |-> 1]

IntermediatePhase(skill_gaps, projects) ==
  [phase_number |-> 2,
   phase_name |-> "Intermediate",
   duration |-> "8-12 weeks",
   skills |-> Phase2Skills(skill_gaps),
   projects |-> projects,
   resources |-> <<"Udemy Course", "Blog Posts">>,
   milestones |-> <<"Build intermediate project", "Contribute to open source">>,
   order |-> 2]

AdvancedPhase(skill_gaps, projects) ==
  [phase_number |-> 3,
   phase_name |-> "Advanced",
   duration |-> "12-16 weeks",
   skills |-> Phase3Skills(skill_gaps),
   projects |-> projects,
   resources |-> <<"Research Papers", "Advanced Courses">>,
   milestones |-> <<"Advanced project completion", "System design">>,
   order |-> 3]

\* RoadmapGenerator._create_phases: every phase list the call can return,
\* one for each choice of the project lists.
create_phases(goal, skill_gaps) ==
  {   <<FoundationPhase(skill_gaps, p1)>>
   \o (IF Len(skill_gaps) > 2
       THEN <<IntermediatePhase(skill_gaps, p2)>> ELSE <<>>)
   \o (IF Len(skill_gaps) > 4
       THEN <<AdvancedPhase(skill_gaps, p3)>> ELSE <<>>)
   : p1 \in get_projects_for_skills(Phase1ProjectSkills(skill_gaps)),
     p2 \in (IF Len(skill_gaps) > 2
             THEN get_projects_for_skills(Phase2Skills(skill_gaps))
             ELSE {<<>>}),
     p3 \in (IF Len(skill_gaps) > 4
             THEN get_projects_for_skills(Phase3Skills(skill_gaps))
             ELSE {<<>>}) }

\* generate_roadmap estimating the duration from the number of phases
generate_roadmap_ByPhases(goal, skills, years) ==
  LET gaps == detect_skill_gaps(goal, skills)
  IN  {[returned |-> TRUE,
        goal |-> goal,
        phases |-> phases,
        total_duration |-> estimate_duration(Len(phases)),
        milestone_count |-> 4,
        projects_count |-> 8]
       : phases \in create_phases(goal, gaps.skill_gaps)}

\* RoadmapGenerator.generate_roadmap: every roadmap the call can return.
generate_roadmap(goal, skills, years) ==
  LET gaps == detect_skill_gaps(goal, skills)
  IN  IF Raised(gaps) THEN {gaps}
      ELSE {[returned |-> TRUE,
             goal |-> goal,
             phases |-> phases,
             total_duration |-> estimate_duration(Len(gaps.skill_gaps)),
             milestone_count |-> 4,
             projects_count |-> 8]
            : phases \in create_phases(goal, gaps.skill_gaps)}

-----------------------------------------------------------------------------
(* SkillMatcher *)

matcher_skill_aliases ==
     "mysql" :> "SQL"
  @@ "postgresql" :> "SQL"
  @@ "postgres" :> "SQL"
  @@ "oracle" :> "SQL"
  @@ "mssql" :> "SQL"
  @@ "sql server" :> "SQL"
  @@ "mariadb" :> "SQL"
  @@ "tensorflow" :> "Deep Learning"
  @@ "pytorch" :> "Deep Learning"
  @@ "keras" :> "Deep Learning"
  @@ "react" :> "Frontend Framework"
  @@ "vue" :> "Frontend Framework"
  @@ "angular" :> "Frontend Framework"
  @@ "svelte" :> "Frontend Framework"
  @@ "aws" :> "Cloud Platform"
  @@ "gcp" :> "Cloud Platform"
  @@ "google cloud" :> "Cloud Platform"
  @@ "azure" :> "Cloud Platform"
  @@ "microsoft azure" :> "Cloud Platform"
  @@ "docker" :> "Container"
  @@ "kubernetes" :> "Container"
  @@ "k8s" :> "Container"
  @@ "mongodb" :> "NoSQL"
  @@ "cassandra" :> "NoSQL"
  @@ "dynamodb" :> "NoSQL"
  @@ "redis" :> "NoSQL"
  @@ "scikit-learn" :> "Machine Learning"
  @@ "scikit_learn" :> "Machine Learning"
  @@ "sklearn" :> "Machine Learning"
  @@ "xgboost" :> "Machine Learning"
  @@ "lightgbm" :> "Machine Learning"
  @@ "pandas" :> "Data Processing"
  @@ "numpy" :> "Data Processing"
  @@ "scipy" :> "Data Processing"
  @@ "fastapi" :> "API Framework"
  @@ "flask" :> "API Framework"
  @@ "django" :> "API Framework"
  @@ "express" :> "API Framework"
  @@ "node.js" :> "API Framework"
  @@ "nodejs" :> "API Framework"

skill_taxonomy ==
     "backend" :> <<"Python", "Java", "C#", "Go", "Rust">>
  @@ "frontend" :> <<"JavaScript", "React", "Vue", "Angular", "TypeScript">>
  @@ "fullstack" :> <<"JavaScript", "Python", "React", "Node.js", "PostgreSQL">>
  @@ "data" :> <<"Python", "SQL", "Pandas", "Statistics", "Machine Learning">>
  @@ "ml" :> <<"Python", "TensorFlow", "PyTorch", "Machine Learning", "Mathematics">>
  @@ "devops" :> <<"Docker", "Kubernetes", "AWS", "CI/CD", "Linux">>
  @@ "mobile" :> <<"React Native", "Swift", "Kotlin", "Flutter">>

\* SkillMatcher.normalize_skill
matcher_normalize_skill(s) ==
  LET skill_lower == Lower(s)
  IN  IF skill_lower \in DOMAIN matcher_skill_aliases
      THEN matcher_skill_aliases[skill_lower]
      ELSE s

\* _normalize_goal with the "data" test moved before the "backend" test
normalize_goal_DataFirst(goal) ==
  LET goal_lower == Lower(goal)
  IN  IF Contains(goal_lower, "machine learning") \/ Contains(goal_lower, "ml")
      THEN "ml"
      ELSE IF Contains(goal_lower, "data") THEN "data"
      ELSE IF Contains(goal_lower, "backend") THEN "backend"
      ELSE IF Contains(goal_lower, "frontend") THEN "frontend"
      ELSE IF Contains(goal_lower, "full stack") THEN "fullstack"
      ELSE IF Contains(goal_lower, "devops") THEN "devops"
      ELSE IF Contains(goal_lower, "mobile") THEN "mobile"
      ELSE "fullstack"

\* SkillMatcher._normalize_goal
normalize_goal(goal) ==
  LET goal_lower == Lower(goal)
  IN  IF Contains(goal_lower, "machine learning") \/ Contains(goal_lower, "ml")
      THEN "ml"
      ELSE IF Contains(goal_lower, "backend") THEN "backend"
      ELSE IF Contains(goal_lower, "frontend") THEN "frontend"
      ELSE IF Contains(goal_lower, "full stack") THEN "fullstack"
      ELSE IF Contains(goal_lower, "data") THEN "data"
      ELSE IF Contains(goal_lower, "devops") THEN "devops"
      ELSE IF Contains(goal_lower, "mobile") THEN "mobile"
      ELSE "fullstack"

\* score >= percent, for a score kept as a fraction
AtLeast(score, percent) == score.num >= percent * score.den

\* _calculate_readiness with > in place of >=
calculate_readiness_Strict(score) ==
  IF score.num > 80 * score.den THEN "ready"
  ELSE IF score.num > 60 * score.den THEN "intermediate"
  ELSE IF score.num > 40 * score.den THEN "beginner"
  ELSE "novice"

\* SkillMatcher._calculate_readiness
calculate_readiness(score) ==
  IF AtLeast(score, 80) THEN "ready"
  ELSE IF AtLeast(score, 60) THEN "intermediate"
  ELSE IF AtLeast(score, 40) THEN "beginner"
  ELSE "novice"

\* round(score, 2): the nearest multiple of 1/100, a tie going to the even
\* one.
Round2(score) ==
  LET scaled == score.num * 100
      q == scaled \div score.den
      r == scaled % score.den
      h == IF 2 * r > score.den THEN q + 1
           ELSE IF 2 * r < score.den THEN q
           ELSE IF q % 2 = 0 THEN q ELSE q + 1
  IN  Frac(h, 100)

\* The score, dividing by the number of matched skills
MatchScore_OverMatched(matched, target_set) ==
  IF target_set # {}
  THEN Divide(Cardinality(target_set) * 100, Cardinality(matched))
  ELSE Frac(0, 1)

\* (len(matched) / len(target_set)) * 100 if target_set else 0
MatchScore(matched, target_set) ==
  IF target_set # {}
  THEN Divide(Cardinality(matched) * 100, Cardinality(target_set))
  ELSE Frac(0, 1)

\* match_skills_to_career reporting every input skill as matched
match_skills_to_career_AllSkills(skills, goal) ==
  LET goal_key == normalize_goal(goal)
      target_skills == DictGet(skill_taxonomy, goal_key, <<>>)
      skill_set == {Lower(skills[i]) : i \in DOMAIN skills}
      target_set == {Lower(target_skills[i]) : i \in DOMAIN target_skills}
      matched == skill_set
      missing == target_set \ skill_set
      match_score == MatchScore(matched, target_set)
  IN  IF Raised(match_score) THEN match_score
      ELSE [returned |-> TRUE,
            career_goal |-> goal,
            target_skills |-> target_skills,
            matched_skills |-> matched,
            missing_skills |-> missing,
            match_score |-> Round2(match_score),
            readiness_level |-> calculate_readiness(match_score)]

\* SkillMatcher.match_skills_to_career.  matched_skills and missing_skills
\* are list(set): the elements of a set in an order Python does not fix and
\* the code never reads, so the model keeps each as the set.
match_skills_to_career(skills, goal) ==
  LET goal_key == normalize_goal(goal)
      target_skills == DictGet(skill_taxonomy, goal_key, <<>>)
      skill_set == {Lower(skills[i]) : i \in DOMAIN skills}
      target_set == {Lower(target_skills[i]) : i \in DOMAIN target_skills}
      matched == skill_set \cap target_set
      missing == target_set \ skill_set
      match_score == MatchScore(matched, target_set)
  IN  IF Raised(match_score) THEN match_score
      ELSE [returned |-> TRUE,
            career_goal |-> goal,
            target_skills |-> target_skills,
            matched_skills |-> matched,
            missing_skills |-> missing,
            match_score |-> Round2(match_score),
            readiness_level |-> calculate_readiness(match_score)]

\* The local list projects of recommend_projects.
project_catalog ==
  <<
    [title |-> "Portfolio Website",
     skills |-> <<"HTML", "CSS", "JavaScript">>,
     difficulty |-> "beginner",
     duration |-> "2 weeks"],
    [title |-> "REST API with FastAPI",
     skills |-> <<"Python", "FastAPI", "PostgreSQL">>,
     difficulty |-> "intermediate",
     duration |-> "3 weeks"],
    [title |-> "Machine Learning Model",
     skills |-> <<"Python", "TensorFlow", "Scikit-learn">>,
     difficulty |-> "intermediate",
     duration |-> "4 weeks"],
    [title |-> "Full-stack Application",
     skills |-> <<"React", "Node.js", "MongoDB">>,
     difficulty |-> "advanced",
     duration |-> "6 weeks"],
    [title |-> "Docker Containerization",
     skills |-> <<"Docker", "Kubernetes", "DevOps">>,
     difficulty |-> "intermediate",
     duration |-> "2 weeks"]
  >>

\* The overlap test of recommend_projects, on the project skills as written
ProjectMatches_CaseSensitive(skill_set, project) ==
  skill_set \cap Range(project.skills) # {}

\* skill_set.intersection(project_skill_set) is not empty
ProjectMatches(skill_set, project) ==
  LET project_skill_set ==
        {Lower(project.skills[i]) : i \in DOMAIN project.skills}
  IN  skill_set \cap project_skill_set # {}

\* SkillMatcher.recommend_projects
recommend_projects(skills, goal) ==
  LET skill_set == {Lower(skills[i]) : i \in DOMAIN skills}
      recommended_list ==
        SelectSeq(project_catalog, LAMBDA pr : ProjectMatches(skill_set, pr))
  IN  Slice(recommended_list, 0, 5)

\* The local dict resources_map of recommend_resources.  Each type tag of
\* the source starts with a pictograph, which is left out here.
resources_map ==
     "python" :> <<
       [type |-> "Course", title |-> "Python for Everybody",
        link |-> "https://www.coursera.org/learn/python"],
       [type |-> "YouTube", title |-> "Python Tutorial for Beginners",
        link |-> "https://www.youtube.com/watch?v=_uQrJ0TkSuc"],
       [type |-> "Book", title |-> "Python Crash Course",
        link |-> "https://nostarch.com/python-crash-course-2nd-edition"],
       [type |-> "Practice", title |-> "LeetCode Python Track",
        link |-> "https://leetcode.com"],
       [type |-> "Docs", title |-> "Official Python Docs",
        link |-> "https://docs.python.org/3/"]
     >>
  @@ "javascript" :> <<
       [type |-> "Course", title |-> "The Complete JavaScript Course",
        link |-> "https://www.udemy.com/course/the-complete-javascript-course-2024/"],
       [type |-> "YouTube", title |-> "JavaScript Fundamentals",
        link |-> "https://www.youtube.com/watch?v=W6NZfCO5tTE"],
       [type |-> "Interactive", title |-> "JavaScript.info",
        link |-> "https://javascript.info"],
       [type |-> "Practice", title |-> "Codewars JavaScript",
        link |-> "https://www.codewars.com"],
       [type |-> "Book", title |-> "Eloquent JavaScript",
        link |-> "https://eloquentjavascript.net"]
     >>
  @@ "react" :> <<
       [type |-> "Docs", title |-> "React Official Documentation",
        link |-> "https://react.dev"],
       [type |-> "Course", title |-> "React - The Complete Guide",
        link |-> "https://www.udemy.com/course/react-the-complete-guide/"],
       [type |-> "YouTube", title |-> "React Course by Scrimba",
        link |-> "https://www.youtube.com/watch?v=I6nnRc-XP2M"],
       [type |-> "Practice", title |-> "React Router Tutorial",
        link |-> "https://reactrouter.com"],
       [type |-> "Tools", title |-> "Create React App",
        link |-> "https://create-react-app.dev"]
     >>
  @@ "tensorflow" :> <<
       [type |-> "Course", title |-> "TensorFlow for Beginners",
        link |-> "https://www.tensorflow.org/learn"],
       [type |-> "YouTube", title |-> "TensorFlow Tutorial",
        link |-> "https://www.youtube.com/watch?v=KakSz1FkQmQ"],
       [type |-> "Book", title |-> "Hands-On ML with TensorFlow",
        link |-> "https://www.oreilly.com/library/view/hands-on-machine-learning/9781492032632/"],
       [type |-> "Docs", title |-> "TensorFlow Official Docs",
        link |-> "https://www.tensorflow.org/api_docs"],
       [type |-> "Practice", title |-> "TensorFlow Examples",
        link |-> "https://github.com/aymericdamien/TensorFlow-Examples"]
     >>
  @@ "pytorch" :> <<
       [type |-> "Course", title |-> "PyTorch for Deep Learning",
        link |-> "https://pytorch.org/tutorials/"],
       [type |-> "YouTube", title |-> "PyTorch Full Tutorial",
        link |-> "https://www.youtube.com/watch?v=GIsg-ZUy0MY"],
       [type |-> "Docs", title |-> "PyTorch Documentation",
        link |-> "https://pytorch.org/docs/stable/index.html"],
       [type |-> "Practice", title |-> "Kaggle PyTorch Projects",
        link |-> "https://www.kaggle.com/code?language=pytorch"],
       [type |-> "Book", title |-> "Deep Learning with PyTorch",
        link |-> "https://www.manning.com/books/deep-learning-with-pytorch"]
     >>
  @@ "docker" :> <<
       [type |-> "Docs", title |-> "Docker Official Documentation",
        link |-> "https://docs.docker.com"],
       [type |-> "Course", title |-> "Docker Mastery",
        link |-> "https://www.udemy.com/course/docker-mastery/"],
       [type |-> "YouTube", title |-> "Docker Tutorials",
        link |-> "https://www.youtube.com/watch?v=3c-iBn73dRM"],
       [type |-> "Practice", title |-> "Docker Labs",
        link |-> "https://www.docker.com/"],
       [type |-> "Tools", title |-> "Docker Hub",
        link |-> "https://hub.docker.com"]
     >>
  @@ "kubernetes" :> <<
       [type |-> "Docs", title |-> "Kubernetes Official Docs",
        link |-> "https://kubernetes.io/docs/"],
       [type |-> "Course", title |-> "Kubernetes for Beginners",
        link |-> "https://www.udemy.com/course/kubernetes-for-beginners/"],
       [type |-> "YouTube", title |-> "Kubernetes Crash Course",
        link |-> "https://www.youtube.com/watch?v=X48VuDVv0Z0"],
       [type |-> "Practice", title |-> "Katacoda K8s Labs",
        link |-> "https://www.katacoda.com"],
       [type |-> "Book", title |-> "Kubernetes in Action",
        link |-> "https://www.manning.com/books/kubernetes-in-action"]
     >>
  @@ "aws" :> <<
       [type |-> "Docs", title |-> "AWS Learning Path",
        link |-> "https://aws.amazon.com/training/"],
       [type |-> "Course", title |-> "Ultimate AWS Course",
        link |-> "https://www.udemy.com/course/ultimate-aws-certified-solutions-architect-associate/"],
       [type |-> "YouTube", title |-> "AWS Tutorials",
        link |-> "https://www.youtube.com/results?search_query=aws+tutorials"],
       [type |-> "Practice", title |-> "AWS Free Tier",
        link |-> "https://aws.amazon.com/free/"],
       [type |-> "Book", title |-> "AWS Solutions Architecture",
        link |-> "https://www.oreilly.com/"]
     >>
  @@ "sql" :> <<
       [type |-> "Course", title |-> "SQL for Data Analysis",
        link |-> "https://www.udemy.com/course/sql-for-business-analysts/"],
       [type |-> "YouTube", title |-> "SQL Tutorial",
        link |-> "https://www.youtube.com/watch?v=19vJtICSIOU"],
       [type |-> "Practice", title |-> "SQLZoo",
        link |-> "https://www.sqlzoo.net"],
       [type |-> "Docs", title |-> "PostgreSQL Documentation",
        link |-> "https://www.postgresql.org/docs/"],
       [type |-> "Interactive", title |-> "Mode SQL Tutorial",
        link |-> "https://mode.com/sql-tutorial/"]
     >>
  @@ "fastapi" :> <<
       [type |-> "Docs", title |-> "FastAPI Official Documentation",
        link |-> "https://fastapi.tiangolo.com"],
       [type |-> "YouTube", title |-> "FastAPI Tutorial",
        link |-> "https://www.youtube.com/watch?v=7t2alSnE2-I"],
       [type |-> "Course", title |-> "FastAPI on Udemy",
        link |-> "https://www.udemy.com/course/fastapi-the-complete-course/"],
       [type |-> "Practice", title |-> "Real Python FastAPI",
        link |-> "https://realpython.com/fastapi-python-web-apis/"],
       [type |-> "Tools", title |-> "FastAPI GitHub",
        link |-> "https://github.com/tiangolo/fastapi"]
     >>
  @@ "statistics" :> <<
       [type |-> "Course", title |-> "Statistics with Python",
        link |-> "https://www.coursera.org/learn/basic-statistics"],
       [type |-> "YouTube", title |-> "Statistics Essentials",
        link |-> "https://www.youtube.com/watch?v=xxpc-SQ5BII"],
       [type |-> "Book", title |-> "Statistical Rethinking",
        link |-> "https://xcelab.net/rm/statistical-rethinking/"],
       [type |-> "Practice", title |-> "Khan Academy Statistics",
        link |-> "https://www.khanacademy.org/math/statistics-probability"],
       [type |-> "Tool", title |-> "R Statistical Computing",
        link |-> "https://www.r-project.org"]
     >>

\* str.replace(old, new) for one-character old
RECURSIVE Replace(_, _, _)
Replace(s, old, new) ==
  IF Len(s) = 0 THEN ""
  ELSE (IF SubSeq(s, 1, 1) = old THEN new ELSE SubSeq(s, 1, 1))
         \o Replace(SubSeq(s, 2, Len(s)), old, new)

\* The generic fallback list of recommend_resources.
FallbackResources(sk) ==
  <<[type |-> "Search", title |-> "Google: Learn " \o sk,
     link |-> "https://www.google.com/search?q=learn+" \o Replace(sk, " ", "+")],
    [type |-> "Course", title |-> sk \o " on Udemy",
     link |-> "https://www.udemy.com"],
    [type |-> "YouTube", title |-> sk \o " Tutorial",
     link |-> "https://www.youtube.com"],
    [type |-> "Books", title |-> "O'Reilly " \o sk \o " Books",
     link |-> "https://www.oreilly.com"],
    [type |-> "Community", title |-> "Stack Overflow " \o sk \o " Tag",
     link |-> "https://stackoverflow.com"]>>

\* recommend_resources building the fallback from the lower-cased skill
recommend_resources_LowerFallback(sk) ==
  LET skill_lower == Lower(sk)
  IN  IF skill_lower \in DOMAIN resources_map
      THEN resources_map[skill_lower]
      ELSE FallbackResources(skill_lower)

\* SkillMatcher.recommend_resources
recommend_resources(sk) ==
  LET skill_lower == Lower(sk)
  IN  IF skill_lower \in DOMAIN resources_map
      THEN resources_map[skill_lower]
      ELSE FallbackResources(sk)

\* The tables of CareerAnalyzer, RoadmapGenerator and SkillMatcher, as
\* their constructors and their methods build them.
Tables ==
  [skill_aliases |-> skill_aliases,
   career_skill_map |-> career_skill_map,
   trajectories |-> trajectories,
   skill_projects |-> skill_projects,
   matcher_skill_aliases |-> matcher_skill_aliases,
   skill_taxonomy |-> skill_taxonomy,
   projects |-> project_catalog,
   resources_map |-> resources_map]

-----------------------------------------------------------------------------
(* Inputs *)

MaxSkills == 4

GoalInputs ==
  {"Data Scientist", "data science", "ML Engineer", "machine learning engineer",
   "backend", "Backend Engineer", "Astronaut", ""}

SkillInputs == {"python", "sql", "pandas", "Postgres", "JavaScript"}

\* All lists over S of length at most n.
SeqsUpTo(S, n) == UNION {[1..k -> S] : k \in 0..n}

-----------------------------------------------------------------------------
(* The analyzer, called on one goal and one skill list *)

DetectSkillGaps ==
  /\ ~gap_report.returned
  /\ gap_report' = detect_skill_gaps(career_goal, current_skills)
  /\ UNCHANGED <<inputs, api, concurrent, others, normalized, matcher_normalized, trajectory, roadmap,
                 match_report>>

MapCareerTrajectory ==
  /\ ~trajectory.returned
  /\ trajectory' = map_career_trajectory(career_goal)
  /\ UNCHANGED <<inputs, api, concurrent, others, normalized, matcher_normalized, gap_report, roadmap,
                 match_report>>

Init ==
  /\ career_goal \in GoalInputs
  /\ current_skills \in SeqsUpTo(SkillInputs, MaxSkills)
  /\ years_exp = 0
  /\ skill = ""
  /\ normalized = NoResult
  /\ matcher_normalized = NoResult
  /\ gap_report = NoResult
  /\ trajectory = NoResult
  /\ roadmap = NoResult
  /\ match_report = NoResult
  /\ renormalized = NoResult
  /\ recommended = NoResult
  /\ resources = NoResult
  /\ calls = <<>>
  /\ frames = <<>>
  /\ tables = Tables
  /\ db = NoRows
  /\ response = NoResponse
  /\ outbox = {}
  /\ now = 0
  /\ requests = <<>>

Next ==
  \/ DetectSkillGaps
  \/ MapCareerTrajectory

Spec == Init /\ [][Next]_vars

-----------------------------------------------------------------------------
(* Properties of the analyzer *)

\* The number of elements of S that are at most i.
RankIn(S, i) == Cardinality({j \in S : j <= i})

\* g lists exactly the entries of req whose lower-cased name is not in cur,
\* in the order of req and as written in req.
IsGapListOf(g, req, cur) ==
  LET missing == {i \in DOMAIN req : Lower(req[i]) \notin cur}
  IN  /\ Len(g) = Cardinality(missing)
      /\ \A i \in missing : g[RankIn(missing, i)] = req[i]

\* The requirement list the table gives for a goal.
TableRequirement(goal) ==
  IF \E k \in DOMAIN career_skill_map : k = Lower(goal)
  THEN career_skill_map[Lower(goal)]
  ELSE <<"Python", "JavaScript", "SQL">>

\* The set of lower-cased normalized current skills.
CurrentLower(skills) ==
  {Lower(IF Lower(s) \in DOMAIN skill_aliases THEN skill_aliases[Lower(s)] ELSE s)
     : s \in Range(skills)}

\* C1: skill_gaps is exactly the list of the goal's required skills whose
\* lower-cased name is not among the lower-cased normalized current skills,
\* in requirement order and in table casing, and proficiency_gaps is its
\* length; "Data Scientist" with python, sql, pandas lacks Machine Learning
\* and Data Visualization.
C1_SkillGaps ==
  gap_report.returned =>
    /\ IsGapListOf(gap_report.skill_gaps, TableRequirement(career_goal),
                   CurrentLower(current_skills))
    /\ gap_report.proficiency_gaps = Len(gap_report.skill_gaps)
    /\ (/\ career_goal = "Data Scientist"
        /\ current_skills = <<"python", "sql", "pandas">>)
         => gap_report.skill_gaps = <<"Machine Learning", "Data Visualization">>

C1_Witness ==
  /\ gap_report.returned
  /\ career_goal = "Data Scientist"
  /\ current_skills = <<"python", "sql", "pandas">>
  /\ gap_report.skill_gaps = <<"Machine Learning", "Data Visualization">>
  /\ gap_report.proficiency_gaps = 2

\* C4: completion_percentage is 100 * (distinct lower-cased normalized
\* current skills) / (required skills of the goal), 0 for an empty
\* requirement, and above 100 when the user has more distinct skills than
\* the goal requires.
C4_CompletionPercentage ==
  gap_report.returned =>
    LET n == Cardinality(CurrentLower(current_skills))
        d == Len(TableRequirement(career_goal))
        cp == gap_report.completion_percentage
    IN  /\ cp.den > 0
        /\ d > 0 => cp.num * d = 100 * n * cp.den
        /\ d = 0 => cp.num = 0
        /\ n > d => cp.num > 100 * cp.den

C4_Witness ==
  /\ gap_report.returned
  /\ Cardinality(CurrentLower(current_skills)) = 4
  /\ Len(TableRequirement(career_goal)) = 3
  /\ gap_report.completion_percentage = [num |-> 400, den |-> 3]

\* C5: a goal that is no key of the goal tables gets the required skills
\* Python, JavaScript, SQL and the trajectory Foundation, Intermediate,
\* Advanced, Expert of 4 steps.
C5_UnknownGoalFallback ==
  /\ (gap_report.returned /\ Lower(career_goal) \notin DOMAIN career_skill_map) =>
       /\ IsGapListOf(gap_report.skill_gaps, <<"Python", "JavaScript", "SQL">>,
                      CurrentLower(current_skills))
       /\ gap_report.completion_percentage.num * 3 =
            100 * Cardinality(CurrentLower(current_skills))
              * gap_report.completion_percentage.den
  /\ (trajectory.returned /\ Lower(career_goal) \notin DOMAIN trajectories) =>
       /\ trajectory.trajectory_steps =
            <<"Foundation", "Intermediate", "Advanced", "Expert">>
       /\ trajectory.total_steps = 4

C5_Witness ==
  /\ career_goal = "Astronaut"
  /\ current_skills = <<>>
  /\ gap_report.returned
  /\ gap_report.skill_gaps = <<"Python", "JavaScript", "SQL">>
  /\ trajectory.returned
  /\ trajectory.total_steps = 4

\* C6: every goal alias with the same requirement sequence as the goal of
\* the call gives the same skill_gaps for the same current skills.
C6_SynonymGoals ==
  (gap_report.returned /\ Lower(career_goal) \in DOMAIN career_skill_map) =>
    \A k \in DOMAIN career_skill_map :
      career_skill_map[k] = career_skill_map[Lower(career_goal)] =>
        detect_skill_gaps(k, current_skills).skill_gaps = gap_report.skill_gaps

C6_Witness ==
  /\ gap_report.returned
  /\ career_goal = "ML Engineer"
  /\ current_skills = <<"python", "Postgres">>
  /\ gap_report.skill_gaps = <<"Deep Learning", "Statistics", "Data Processing">>
  /\ detect_skill_gaps("machine learning engineer", current_skills).skill_gaps
       = gap_report.skill_gaps

\* C29: the requirement table and the trajectory table have the same keys,
\* so detect_skill_gaps works on its default requirement list exactly when
\* map_career_trajectory returns its default 4-step trajectory.
C29_SameGoalsRecognised ==
  /\ DOMAIN career_skill_map = DOMAIN trajectories
  /\ \A k \in DOMAIN career_skill_map :
       /\ career_skill_map[k] # <<"Python", "JavaScript", "SQL">>
       /\ trajectories[k] # <<"Foundation", "Intermediate", "Advanced", "Expert">>
  /\ (gap_report.returned /\ trajectory.returned) =>
       (IsGapListOf(gap_report.skill_gaps, <<"Python", "JavaScript", "SQL">>,
                    CurrentLower(current_skills))
          /\ Lower(career_goal) \notin DOMAIN career_skill_map)
         <=> trajectory.trajectory_steps =
               <<"Foundation", "Intermediate", "Advanced", "Expert">>

C29_Witness ==
  /\ gap_report.returned
  /\ trajectory.returned
  /\ career_goal = "Backend Engineer"
  /\ current_skills = <<"python">>
  /\ gap_report.skill_gaps = <<"API Framework", "SQL", "NoSQL", "Cloud Platform">>
  /\ trajectory.trajectory_steps[1] = "Python Web Dev"

-----------------------------------------------------------------------------
(* generate_roadmap, called on one goal and one skill list *)

MaxRoadmapSkills == 3

RoadmapGoalInputs == {"Data Scientist", "Cloud Architect", "Astronaut"}

RoadmapSkillInputs == {"python", "sql", "JavaScript"}

YearsInputs == {1, 7}

GenerateRoadmap ==
  /\ ~roadmap.returned
  /\ roadmap' \in generate_roadmap(career_goal, current_skills, years_exp)
  /\ UNCHANGED <<inputs, api, concurrent, others, normalized, matcher_normalized, gap_report,
                 trajectory, match_report>>

InitRoadmap ==
  /\ career_goal \in RoadmapGoalInputs
  /\ current_skills \in SeqsUpTo(RoadmapSkillInputs, MaxRoadmapSkills)
  /\ years_exp \in YearsInputs
  /\ skill = ""
  /\ normalized = NoResult
  /\ matcher_normalized = NoResult
  /\ gap_report = NoResult
  /\ trajectory = NoResult
  /\ roadmap = NoResult
  /\ match_report = NoResult
  /\ renormalized = NoResult
  /\ recommended = NoResult
  /\ resources = NoResult
  /\ calls = <<>>
  /\ frames = <<>>
  /\ tables = Tables
  /\ db = NoRows
  /\ response = NoResponse
  /\ outbox = {}
  /\ now = 0
  /\ requests = <<>>

NextRoadmap == GenerateRoadmap

SpecRoadmap == InitRoadmap /\ [][NextRoadmap]_vars

-----------------------------------------------------------------------------
(* Properties of the roadmap *)

\* The gap list generate_roadmap works on.
RoadmapGaps == detect_skill_gaps(career_goal, current_skills).skill_gaps

\* g[lo:hi], written position by position.
Positions(g, lo, hi) ==
  LET h == IF hi < Len(g) THEN hi ELSE Len(g)
  IN  [i \in 1..(h - lo) |-> g[lo + i]]

\* Phases 2 and 3 are emitted on |g| > 2 and |g| > 4 and hold g[2:4] and
\* g[4:].
LaterPhasesSplit(ph, g) ==
  /\ Len(ph) >= 1
  /\ Len(ph) >= 2 <=> Len(g) > 2
  /\ Len(ph) >= 3 <=> Len(g) > 4
  /\ Len(ph) <= 3
  /\ Len(g) > 2 => ph[2].skills = Positions(g, 2, 4)
  /\ Len(g) > 4 => ph[3].skills = Positions(g, 4, Len(g))

\* C3 as claimed: phase 1 has skills g[0:2] for every gap list g, phase 2
\* exists only for |g| > 2 with g[2:4], phase 3 only for |g| > 4 with g[4:].
C3_Original ==
  roadmap.returned =>
    LET g == RoadmapGaps
    IN  /\ LaterPhasesSplit(roadmap.phases, g)
        /\ roadmap.phases[1].skills = Positions(g, 0, 2)

\* C3 (amended): phase 1 has skills g[0:2] when g is not empty and the
\* placeholder ["Fundamentals"] when g is empty; phase 2 exists only for
\* |g| > 2 with g[2:4], phase 3 only for |g| > 4 with g[4:]; 5 gaps give 3
\* phases g[0:2], g[2:4], g[4:5].
C3_PhaseSplit ==
  roadmap.returned =>
    LET g == RoadmapGaps
    IN  /\ LaterPhasesSplit(roadmap.phases, g)
        /\ g # <<>> => roadmap.phases[1].skills = Positions(g, 0, 2)
        /\ g = <<>> => roadmap.phases[1].skills = <<"Fundamentals">>
        /\ Len(g) = 5 =>
             /\ Len(roadmap.phases) = 3
             /\ roadmap.phases[1].skills = <<g[1], g[2]>>
             /\ roadmap.phases[2].skills = <<g[3], g[4]>>
             /\ roadmap.phases[3].skills = <<g[5]>>

C3_Witness ==
  /\ roadmap.returned
  /\ career_goal = "Data Scientist"
  /\ current_skills = <<"JavaScript">>
  /\ Len(roadmap.phases) = 3
  /\ roadmap.phases[1].skills = <<"Python", "SQL">>
  /\ roadmap.phases[2].skills = <<"Data Processing", "Machine Learning">>
  /\ roadmap.phases[3].skills = <<"Data Visualization">>

\* The catalog keys, lower-cased.
CatalogKeysLower ==
  [i \in DOMAIN skill_projects |-> Lower(skill_projects[i][1])]

\* The catalog entries whose key equals a skill of the list in lower case.
CatalogHits(skills) ==
  LET wanted == {Lower(skills[j]) : j \in DOMAIN skills}
  IN  {i \in DOMAIN skill_projects : CatalogKeysLower[i] \in wanted}

\* projects is drawn from the skills: each entry is one of the first two
\* project ideas of a catalog skill of the list, no entry is repeated, there
\* are at most 3, and the list is the fallback message exactly when no skill
\* of the list is in the catalog.
DrawnFrom(projects, skills) ==
  LET hits == CatalogHits(skills)
      ideas == {skill_projects[i][2][n] : i \in hits, n \in {1, 2}}
  IN  /\ (projects = <<FallbackProject>>) <=> (hits = {})
      /\ hits # {} =>
           /\ \A n \in DOMAIN projects : projects[n] \in ideas
           /\ \A m, n \in DOMAIN projects : m # n => projects[m] # projects[n]
           /\ Len(projects) \in 1..3

\* C9 as claimed: the projects of every phase of every roadmap are drawn
\* from that phase's own skills.
C9_Original ==
  roadmap.returned =>
    \A n \in DOMAIN roadmap.phases :
      DrawnFrom(roadmap.phases[n].projects, roadmap.phases[n].skills)

\* C9 (amended): in a roadmap with at least one gap the projects of every
\* phase are drawn from that phase's own skills; in the roadmap without gaps
\* the projects of the single phase, whose skills are ["Fundamentals"], are
\* drawn from ["Python"].
C9_PhaseProjects ==
  roadmap.returned =>
    LET g == RoadmapGaps
    IN  /\ g # <<>> =>
             \A n \in DOMAIN roadmap.phases :
               DrawnFrom(roadmap.phases[n].projects, roadmap.phases[n].skills)
        /\ g = <<>> =>
             /\ Len(roadmap.phases) = 1
             /\ roadmap.phases[1].skills = <<"Fundamentals">>
             /\ DrawnFrom(roadmap.phases[1].projects, <<"Python">>)

C9_Witness ==
  /\ roadmap.returned
  /\ career_goal = "Cloud Architect"
  /\ Len(roadmap.phases) = 3
  /\ Len(roadmap.phases[1].projects) = 3
  /\ roadmap.phases[2].projects = <<"Terraform Scripts", "IaC Configuration">>
  /\ roadmap.phases[3].skills = <<"Security">>
  /\ roadmap.phases[3].projects = <<FallbackProject>>

DurationOfGapCount ==
  <<"2-6 weeks", "4-8 weeks", "6-10 weeks", "8-12 weeks", "10-14 weeks">>

\* C11: total_duration is "{m}-{m+4} weeks" with m twice the number of gaps
\* of detect_skill_gaps for the same goal and skills, whatever years_exp
\* and the number of phases are.
C11_TotalDuration ==
  roadmap.returned =>
    LET n == Len(RoadmapGaps)
    IN  /\ n \in 0..Len(DurationOfGapCount)
        /\ roadmap.total_duration =
             (IF n = 0 THEN "0-4 weeks" ELSE DurationOfGapCount[n])

C11_Witness ==
  /\ roadmap.returned
  /\ years_exp = 7
  /\ career_goal = "Data Scientist"
  /\ current_skills = <<"python">>
  /\ Len(roadmap.phases) = 2
  /\ roadmap.total_duration = "8-12 weeks"

\* C19: the phases are Foundation, Intermediate, Advanced in this order,
\* phase_number and order count 1, 2, 3 without a hole, and no emitted phase
\* has an empty skills list.
C19_PhaseOrder ==
  roadmap.returned =>
    /\ Len(roadmap.phases) \in 1..3
    /\ \A n \in DOMAIN roadmap.phases :
         /\ roadmap.phases[n].phase_number = n
         /\ roadmap.phases[n].order = n
         /\ roadmap.phases[n].phase_name =
              <<"Foundation", "Intermediate", "Advanced">>[n]
         /\ roadmap.phases[n].skills # <<>>

C19_Witness ==
  /\ roadmap.returned
  /\ career_goal = "Astronaut"
  /\ current_skills = <<>>
  /\ Len(roadmap.phases) = 2
  /\ roadmap.phases[2].phase_name = "Intermediate"
  /\ roadmap.phases[2].phase_number = 2
  /\ roadmap.phases[2].skills = <<"SQL">>


\* The skills lists of the phases, one after the other.
RECURSIVE PhaseSkillsInOrder(_)
PhaseSkillsInOrder(phases) ==
  IF phases = <<>> THEN <<>>
  ELSE Head(phases).skills \o PhaseSkillsInOrder(Tail(phases))

\* C27: when there is a gap, the skills lists of the phases, concatenated in
\* phase order, are exactly the gap list: every gap is in one phase, once,
\* and a phase holds gaps only.
C27_PhasesPartitionGaps ==
  roadmap.returned =>
    LET g == RoadmapGaps
    IN  g # <<>> => PhaseSkillsInOrder(roadmap.phases) = g

C27_Witness ==
  /\ roadmap.returned
  /\ career_goal = "Cloud Architect"
  /\ Len(roadmap.phases) = 3
  /\ roadmap.phases[2].skills = <<"Infrastructure as Code", "Database Design">>
  /\ roadmap.phases[3].skills = <<"Security">>
  /\ PhaseSkillsInOrder(roadmap.phases) =
       <<"Cloud Platform", "Container", "Infrastructure as Code",
         "Database Design", "Security">>

-----------------------------------------------------------------------------
(* match_skills_to_career, called on one skill list and one goal *)

MaxMatchSkills == 4

MatchGoalInputs ==
  {"ML Engineer", "Machine Learning", "HTML Developer", "Backend Developer",
   "Frontend Engineer", "Full Stack Developer", "fullstack", "Data Engineer",
   "DevOps Engineer", "Mobile Developer", "Astronaut",
   "Backend Data Engineer", "Data Frontend", "Mobile DevOps"}

MatchSkillInputs ==
  {"python", "SQL", "pandas", "Statistics", "machine learning"}

MatchSkillsToCareer ==
  /\ ~match_report.returned
  /\ match_report' = match_skills_to_career(current_skills, career_goal)
  /\ UNCHANGED <<inputs, api, concurrent, others, normalized, matcher_normalized, gap_report,
                 trajectory, roadmap>>

InitMatcher ==
  /\ career_goal \in MatchGoalInputs
  /\ current_skills \in SeqsUpTo(MatchSkillInputs, MaxMatchSkills)
  /\ years_exp = 0
  /\ skill = ""
  /\ normalized = NoResult
  /\ matcher_normalized = NoResult
  /\ gap_report = NoResult
  /\ trajectory = NoResult
  /\ roadmap = NoResult
  /\ match_report = NoResult
  /\ renormalized = NoResult
  /\ recommended = NoResult
  /\ resources = NoResult
  /\ calls = <<>>
  /\ frames = <<>>
  /\ tables = Tables
  /\ db = NoRows
  /\ response = NoResponse
  /\ outbox = {}
  /\ now = 0
  /\ requests = <<>>

NextMatcher == MatchSkillsToCareer

SpecMatcher == InitMatcher /\ [][NextMatcher]_vars

-----------------------------------------------------------------------------
(* Properties of the matcher *)

\* The substring tests on the goal, in priority order, with their bucket.
GoalTests ==
  << <<{"machine learning", "ml"}, "ml">>,
     <<{"backend"}, "backend">>,
     <<{"frontend"}, "frontend">>,
     <<{"full stack"}, "fullstack">>,
     <<{"data"}, "data">>,
     <<{"devops"}, "devops">>,
     <<{"mobile"}, "mobile">> >>

\* The tests that succeed on a goal.
TestsPassed(goal) ==
  LET g == Lower(goal)
  IN  {i \in DOMAIN GoalTests : \E pat \in GoalTests[i][1] : Contains(g, pat)}

\* The bucket of the earliest test that succeeds, fullstack when none does.
FirstBucket(goal) ==
  LET passed == TestsPassed(goal)
  IN  IF passed = {} THEN "fullstack"
      ELSE GoalTests[CHOOSE i \in passed : \A j \in passed : i <= j][2]

\* C7: the target skill list is that of the bucket of the first substring
\* test, in the order ml, backend, frontend, full stack, data, devops,
\* mobile, that succeeds on the lower-cased goal, and the fullstack list
\* when none succeeds; "Data Engineer" gets the data list.
C7_GoalBucket ==
  match_report.returned =>
    /\ match_report.target_skills = skill_taxonomy[FirstBucket(career_goal)]
    /\ career_goal = "Data Engineer" =>
         match_report.target_skills =
           <<"Python", "SQL", "Pandas", "Statistics", "Machine Learning">>

C7_Witness ==
  /\ match_report.returned
  /\ career_goal = "Backend Data Engineer"
  /\ Cardinality(TestsPassed(career_goal)) = 2
  /\ match_report.target_skills = <<"Python", "Java", "C#", "Go", "Rust">>

\* C8: match_score is 100 * |lower-cased input skills that are lower-cased
\* target skills| / |target set|, 0 for an empty target set, and
\* readiness_level is ready from 80, intermediate from 60, beginner from 40
\* and novice below, each boundary value in the higher tier.
C8_ScoreAndReadiness ==
  match_report.returned =>
    LET target == {Lower(t) : t \in Range(match_report.target_skills)}
        given == {Lower(sk) : sk \in Range(current_skills)}
        n == Cardinality({t \in target : t \in given})
        d == Cardinality(target)
        score == match_report.match_score
    IN  /\ score.den > 0
        /\ d > 0 => score.num * d = 100 * n * score.den
        /\ d = 0 => score.num = 0
        /\ match_report.readiness_level =
             CASE 100 * n >= 80 * d /\ d > 0 -> "ready"
               [] 100 * n >= 60 * d /\ 100 * n < 80 * d -> "intermediate"
               [] 100 * n >= 40 * d /\ 100 * n < 60 * d -> "beginner"
               [] OTHER -> "novice"

C8_Witness ==
  /\ match_report.returned
  /\ career_goal = "Data Engineer"
  /\ current_skills = <<"python", "SQL", "pandas", "Statistics">>
  /\ match_report.match_score = [num |-> 80, den |-> 1]
  /\ match_report.readiness_level = "ready"


\* matched and missing split the lower-cased target set of the goal's
\* bucket, and hold no skill of the list that is outside it.
SplitsTarget(report, skills, goal) ==
  LET bucket == skill_taxonomy[FirstBucket(goal)]
      target == {Lower(t) : t \in Range(bucket)}
  IN  /\ report.matched_skills \cap report.missing_skills = {}
      /\ report.matched_skills \cup report.missing_skills = target
      /\ report.missing_skills = {} <=> report.match_score = [num |-> 100, den |-> 1]
      /\ \A sk \in Range(skills) :
           Lower(sk) \notin target =>
             Lower(sk) \notin report.matched_skills \cup report.missing_skills

\* C28: matched_skills and missing_skills are disjoint, their union is the
\* lower-cased target set of the goal's bucket, missing_skills is empty
\* exactly when match_score is 100, and no input skill outside the target
\* set is in either; for the list given and for the list with one more skill.
C28_MatchedAndMissing ==
  match_report.returned =>
    /\ SplitsTarget(match_report, current_skills, career_goal)
    /\ \A sk \in MatchSkillInputs \cup {"COBOL"} :
         LET skills == Append(current_skills, sk)
         IN  SplitsTarget(match_skills_to_career(skills, career_goal),
                          skills, career_goal)

C28_Witness ==
  /\ match_report.returned
  /\ career_goal = "Data Engineer"
  /\ current_skills = <<"python", "SQL", "pandas", "Statistics">>
  /\ match_report.matched_skills = {"python", "sql", "pandas", "statistics"}
  /\ match_report.missing_skills = {"machine learning"}
  /\ LET full == match_skills_to_career(Append(current_skills, "machine learning"),
                                        career_goal)
     IN  full.missing_skills = {} /\ full.match_score = [num |-> 100, den |-> 1]

-----------------------------------------------------------------------------
(* recommend_projects and recommend_resources *)

MaxRecommendSkills == 3

RecommendGoalInputs == {"Data Engineer", "Astronaut", ""}

RecommendSkillInputs == {"python", "REACT", "Docker", "html", "COBOL"}

ResourceSkillInputs == {"COBOL", "Python", "sql", "Machine Learning", "", "Go"}

RecommendProjects ==
  /\ ~recommended.returned
  /\ recommended' =
       [returned |-> TRUE,
        value |-> recommend_projects(current_skills, career_goal)]
  /\ UNCHANGED <<inputs, api, concurrent, normalized, matcher_normalized, gap_report,
                 trajectory, roadmap, match_report, renormalized, resources>>

RecommendResources ==
  /\ ~resources.returned
  /\ resources' = [returned |-> TRUE, value |-> recommend_resources(skill)]
  /\ UNCHANGED <<inputs, api, concurrent, normalized, matcher_normalized, gap_report,
                 trajectory, roadmap, match_report, renormalized, recommended>>

InitRecommend ==
  /\ career_goal \in RecommendGoalInputs
  /\ current_skills \in SeqsUpTo(RecommendSkillInputs, MaxRecommendSkills)
  /\ years_exp = 0
  /\ skill \in ResourceSkillInputs
  /\ normalized = NoResult
  /\ matcher_normalized = NoResult
  /\ gap_report = NoResult
  /\ trajectory = NoResult
  /\ roadmap = NoResult
  /\ match_report = NoResult
  /\ renormalized = NoResult
  /\ recommended = NoResult
  /\ resources = NoResult
  /\ calls = <<>>
  /\ frames = <<>>
  /\ tables = Tables
  /\ db = NoRows
  /\ response = NoResponse
  /\ outbox = {}
  /\ now = 0
  /\ requests = <<>>

NextRecommend ==
  \/ RecommendProjects
  \/ RecommendResources

SpecRecommend == InitRecommend /\ [][NextRecommend]_vars

-----------------------------------------------------------------------------
(* Properties of the recommendations *)

\* The catalog projects that share a skill, compared in lower case, with
\* the list.
SharingProjects(skills) ==
  {n \in DOMAIN project_catalog :
     \E i \in DOMAIN skills, j \in DOMAIN project_catalog[n].skills :
       Lower(skills[i]) = Lower(project_catalog[n].skills[j])}

\* C12: recommend_projects returns exactly the catalog projects that share
\* a skill, compared case-insensitively, with the input skills, in catalog
\* order and at most 5 of them; the goal does not matter, and the result is
\* empty when no input skill matches.
C12_RecommendProjects ==
  recommended.returned =>
    LET sharing == SharingProjects(current_skills)
    IN  /\ Len(recommended.value) = Cardinality(sharing)
        /\ Len(recommended.value) <= 5
        /\ \A n \in sharing :
             recommended.value[RankIn(sharing, n)] = project_catalog[n]
        /\ \A goal \in RecommendGoalInputs :
             recommend_projects(current_skills, goal) = recommended.value
        /\ sharing = {} => recommended.value = <<>>

C12_Witness ==
  /\ recommended.returned
  /\ career_goal = "Astronaut"
  /\ current_skills = <<"REACT", "COBOL", "python">>
  /\ Len(recommended.value) = 3
  /\ recommended.value[1].title = "REST API with FastAPI"
  /\ recommended.value[2].title = "Machine Learning Model"
  /\ recommended.value[3].title = "Full-stack Application"

\* C13: recommend_resources returns the catalog entry of a skill whose
\* lower-cased name is a catalog key, and any other skill gets exactly 5
\* fallback entries, each naming the skill as written in its title or link.
C13_RecommendResources ==
  resources.returned =>
    IF \E k \in DOMAIN resources_map : k = Lower(skill)
    THEN resources.value = resources_map[Lower(skill)]
    ELSE /\ Len(resources.value) = 5
         /\ \A n \in DOMAIN resources.value :
              \/ Contains(resources.value[n].title, skill)
              \/ Contains(resources.value[n].link, skill)

C13_Witness ==
  /\ resources.returned
  /\ skill = "COBOL"
  /\ Len(resources.value) = 5
  /\ resources.value[1].title = "Google: Learn COBOL"
  /\ resources.value[1].link = "https://www.google.com/search?q=learn+COBOL"
  /\ resources.value[5].title = "Stack Overflow COBOL Tag"

-----------------------------------------------------------------------------
(* normalize_skill, called on one skill *)

\* str.upper(), used to write the inputs in another letter case
UpperChar(c) ==
  IF \E u \in DOMAIN UpperToLower : UpperToLower[u] = c
  THEN CHOOSE u \in DOMAIN UpperToLower : UpperToLower[u] = c
  ELSE c

RECURSIVE Upper(_)
Upper(s) ==
  IF Len(s) = 0 THEN ""
  ELSE UpperChar(SubSeq(s, 1, 1)) \o Upper(SubSeq(s, 2, Len(s)))

\* str.capitalize()
Capitalize(s) ==
  IF Len(s) = 0 THEN ""
  ELSE UpperChar(SubSeq(s, 1, 1)) \o Lower(SubSeq(s, 2, Len(s)))

\* Every alias in three letter cases, every canonical name, and strings
\* that are no alias.
NormalizeInputs ==
  LET keys == DOMAIN skill_aliases
  IN  keys \cup {Upper(k) : k \in keys} \cup {Capitalize(k) : k \in keys}
        \cup {skill_aliases[k] : k \in keys}
        \cup {"", "Rust", "GO", "python", "Python ", " mysql", "sql", "C++"}

NormalizeSkill ==
  /\ ~normalized.returned
  /\ normalized' = [returned |-> TRUE, value |-> normalize_skill(skill)]
  /\ UNCHANGED <<inputs, api, concurrent, others, matcher_normalized, gap_report, trajectory, roadmap,
                 match_report>>

MatcherNormalizeSkill ==
  /\ ~matcher_normalized.returned
  /\ matcher_normalized' =
       [returned |-> TRUE, value |-> matcher_normalize_skill(skill)]
  /\ UNCHANGED <<inputs, api, concurrent, others, normalized, gap_report, trajectory, roadmap,
                 match_report>>

\* normalize_skill called on what normalize_skill returned
NormalizeAgain ==
  /\ normalized.returned
  /\ ~renormalized.returned
  /\ renormalized' =
       [returned |-> TRUE, value |-> normalize_skill(normalized.value)]
  /\ UNCHANGED <<inputs, api, concurrent, normalized, matcher_normalized, gap_report,
                 trajectory, roadmap, match_report, recommended, resources>>

InitNormalize ==
  /\ skill \in NormalizeInputs
  /\ career_goal = ""
  /\ current_skills = <<>>
  /\ years_exp = 0
  /\ normalized = NoResult
  /\ matcher_normalized = NoResult
  /\ gap_report = NoResult
  /\ trajectory = NoResult
  /\ roadmap = NoResult
  /\ match_report = NoResult
  /\ renormalized = NoResult
  /\ recommended = NoResult
  /\ resources = NoResult
  /\ calls = <<>>
  /\ frames = <<>>
  /\ tables = Tables
  /\ db = NoRows
  /\ response = NoResponse
  /\ outbox = {}
  /\ now = 0
  /\ requests = <<>>

NextNormalize ==
  \/ NormalizeSkill
  \/ MatcherNormalizeSkill
  \/ NormalizeAgain

SpecNormalize == InitNormalize /\ [][NextNormalize]_vars

-----------------------------------------------------------------------------
(* Properties of normalize_skill *)

\* C2: normalize_skill returns the alias table's canonical value when the
\* lower-cased skill is a key of the table and the skill as written
\* otherwise, in the analyzer and in the matcher.
C2_NormalizeSkill ==
  /\ normalized.returned =>
       IF \E k \in DOMAIN skill_aliases : k = Lower(skill)
       THEN normalized.value = skill_aliases[Lower(skill)]
       ELSE normalized.value = skill
  /\ matcher_normalized.returned =>
       IF \E k \in DOMAIN matcher_skill_aliases : k = Lower(skill)
       THEN matcher_normalized.value = matcher_skill_aliases[Lower(skill)]
       ELSE matcher_normalized.value = skill

C2_Witness ==
  /\ normalized.returned
  /\ matcher_normalized.returned
  /\ skill = "Rust"
  /\ normalized.value = "Rust"
  /\ matcher_normalized.value = "Rust"

\* C18: normalize_skill applied twice to an alias, in any letter case, gives
\* what it gives applied once, and no canonical name is, lower-cased, a key of
\* the alias table.
C18_IdempotentOnAliases ==
  /\ (renormalized.returned /\ Lower(skill) \in DOMAIN skill_aliases) =>
       renormalized.value = normalized.value
  /\ \A k \in DOMAIN skill_aliases :
       Lower(skill_aliases[k]) \notin DOMAIN skill_aliases

C18_Witness ==
  /\ renormalized.returned
  /\ skill = "Sql server"
  /\ normalized.value = "SQL"
  /\ renormalized.value = "SQL"

-----------------------------------------------------------------------------
(* The three goal-taking operations, called on goals written with and
   without surrounding spaces and on skills in mixed letter case *)

MaxBoundarySkills == 2

BoundaryGoals == {"backend", "Data Scientist", "ML Engineer", "frontend", "Astronaut"}

Padding == {"", " "}

BoundaryGoalInputs ==
  {pre \o goal \o post : goal \in BoundaryGoals, pre \in Padding, post \in Padding}

BoundarySkillInputs == {"Python", "postgres", "SQL", "react"}

InitBoundary ==
  /\ career_goal \in BoundaryGoalInputs
  /\ current_skills \in SeqsUpTo(BoundarySkillInputs, MaxBoundarySkills)
  /\ years_exp = 0
  /\ skill = ""
  /\ normalized = NoResult
  /\ matcher_normalized = NoResult
  /\ gap_report = NoResult
  /\ trajectory = NoResult
  /\ roadmap = NoResult
  /\ match_report = NoResult
  /\ renormalized = NoResult
  /\ recommended = NoResult
  /\ resources = NoResult
  /\ calls = <<>>
  /\ frames = <<>>
  /\ tables = Tables
  /\ db = NoRows
  /\ response = NoResponse
  /\ outbox = {}
  /\ now = 0
  /\ requests = <<>>

NextBoundary ==
  \/ DetectSkillGaps
  \/ MapCareerTrajectory
  \/ MatchSkillsToCareer

SpecBoundary == InitBoundary /\ [][NextBoundary]_vars

-----------------------------------------------------------------------------
(* Properties at the boundary *)

\* The goal is written with a leading or trailing space.
Padded(goal) == Strip(goal) # goal

\* As claimed: a known goal written with surrounding spaces gets the fallback
\* of each of the three operations, the fullstack bucket for
\* match_skills_to_career.
C14_Original ==
  Padded(career_goal) =>
    /\ (gap_report.returned /\ Lower(Strip(career_goal)) \in DOMAIN career_skill_map) =>
         IsGapListOf(gap_report.skill_gaps, <<"Python", "JavaScript", "SQL">>,
                     CurrentLower(current_skills))
    /\ (trajectory.returned /\ Lower(Strip(career_goal)) \in DOMAIN trajectories) =>
         trajectory.trajectory_steps =
           <<"Foundation", "Intermediate", "Advanced", "Expert">>
    /\ (match_report.returned /\ TestsPassed(Strip(career_goal)) # {}) =>
         match_report.target_skills = skill_taxonomy["fullstack"]

\* C14: detect_skill_gaps and map_career_trajectory do not trim the goal, so
\* a known goal written with leading or trailing spaces gets the default
\* requirement list and the default trajectory; match_skills_to_career
\* tests the goal for substrings, so the same goal keeps the bucket it has
\* without the spaces.
C14_NoTrimming ==
  Padded(career_goal) =>
    /\ (gap_report.returned /\ Lower(Strip(career_goal)) \in DOMAIN career_skill_map) =>
         IsGapListOf(gap_report.skill_gaps, <<"Python", "JavaScript", "SQL">>,
                     CurrentLower(current_skills))
    /\ (trajectory.returned /\ Lower(Strip(career_goal)) \in DOMAIN trajectories) =>
         /\ trajectory.trajectory_steps =
              <<"Foundation", "Intermediate", "Advanced", "Expert">>
         /\ trajectory.total_steps = 4
    /\ match_report.returned =>
         match_report.target_skills = skill_taxonomy[FirstBucket(Strip(career_goal))]

C14_Witness ==
  /\ career_goal = " backend "
  /\ current_skills = <<"Python">>
  /\ gap_report.returned
  /\ gap_report.skill_gaps = <<"JavaScript", "SQL">>
  /\ trajectory.returned
  /\ trajectory.total_steps = 4
  /\ match_report.returned
  /\ match_report.target_skills = <<"Python", "Java", "C#", "Go", "Rust">>

\* The string in upper case, in lower case and capitalized.
CaseVariants(s) == {Upper(s), Lower(s), Capitalize(s)}

\* The list with every skill, or the first one only, in another letter case.
SkillCaseVariants(skills) ==
  {[i \in DOMAIN skills |-> Upper(skills[i])],
   [i \in DOMAIN skills |-> Lower(skills[i])],
   [i \in DOMAIN skills |-> Capitalize(skills[i])],
   [i \in DOMAIN skills |-> IF i = 1 THEN Upper(skills[i]) ELSE skills[i]]}

\* C15: writing the goal or the current skills in another letter case
\* changes none of skill_gaps, proficiency_gaps, completion_percentage,
\* trajectory_steps, matched_skills, missing_skills, match_score and
\* readiness_level.
C15_CaseInsensitive ==
  \A goal \in CaseVariants(career_goal) :
    /\ trajectory.returned =>
         map_career_trajectory(goal).trajectory_steps = trajectory.trajectory_steps
    /\ \A skills \in SkillCaseVariants(current_skills) \cup {current_skills} :
         /\ gap_report.returned =>
              LET report == detect_skill_gaps(goal, skills)
              IN  /\ report.skill_gaps = gap_report.skill_gaps
                  /\ report.proficiency_gaps = gap_report.proficiency_gaps
                  /\ report.completion_percentage = gap_report.completion_percentage
         /\ match_report.returned =>
              LET report == match_skills_to_career(skills, goal)
              IN  /\ report.matched_skills = match_report.matched_skills
                  /\ report.missing_skills = match_report.missing_skills
                  /\ report.match_score = match_report.match_score
                  /\ report.readiness_level = match_report.readiness_level

C15_Witness ==
  /\ career_goal = "Data Scientist"
  /\ current_skills = <<"Python", "postgres">>
  /\ <<"PYTHON", "POSTGRES">> \in SkillCaseVariants(current_skills)
  /\ "DATA SCIENTIST" \in CaseVariants(career_goal)
  /\ gap_report.returned
  /\ gap_report.skill_gaps =
       <<"Data Processing", "Machine Learning", "Data Visualization">>
  /\ trajectory.returned
  /\ trajectory.trajectory_steps[1] = "Python & SQL"
  /\ match_report.returned
  /\ match_report.matched_skills = {"python"}
  /\ match_report.readiness_level = "novice"

\* The alias keys whose canonical name, lower-cased, is in the set cur.
AliasesOf(cur) ==
  {k \in DOMAIN skill_aliases : Lower(skill_aliases[k]) \in cur}

\* lst[::-1]
Reverse(lst) == [i \in 1..Len(lst) |-> lst[Len(lst) + 1 - i]]

\* The skill lists obtained from one list by reversing it, rotating it,
\* repeating one of its entries, or appending an alias of a canonical skill
\* it already holds.
SameSkillsAs(skills) ==
  {Reverse(skills)}
    \cup {SubSeq(skills, 2, Len(skills)) \o <<skills[1]>> : i \in {1} \cap DOMAIN skills}
    \cup {skills \o <<skills[i]>> : i \in DOMAIN skills}
    \cup {skills \o <<k>> : k \in AliasesOf(CurrentLower(skills))}

\* C20: reordering current_skills, repeating an entry or adding a second
\* alias of a canonical skill already present changes neither skill_gaps
\* nor completion_percentage.
C20_SetOfSkillsOnly ==
  gap_report.returned =>
    \A other \in SameSkillsAs(current_skills) :
      LET report == detect_skill_gaps(career_goal, other)
      IN  /\ report.skill_gaps = gap_report.skill_gaps
          /\ report.completion_percentage = gap_report.completion_percentage

C20_Witness ==
  /\ gap_report.returned
  /\ career_goal = "backend"
  /\ current_skills = <<"postgres", "Python">>
  /\ <<"postgres", "Python", "mysql">> \in SameSkillsAs(current_skills)
  /\ <<"Python", "postgres">> \in SameSkillsAs(current_skills)
  /\ gap_report.skill_gaps = <<"API Framework", "NoSQL", "Cloud Platform">>
  /\ gap_report.completion_percentage = [num |-> 40, den |-> 1]
  /\ detect_skill_gaps(career_goal, <<"postgres", "Python", "mysql">>)
       .completion_percentage = [num |-> 40, den |-> 1]

-----------------------------------------------------------------------------
(* Every core operation, called on empty and unknown inputs *)

MaxTotalSkills == 1

TotalGoalInputs == {"", "Cloud"}

TotalSkillInputs == {"", "aws"}

TotalSkillArguments == {"", "C++"}

InitTotal ==
  /\ career_goal \in TotalGoalInputs
  /\ current_skills \in SeqsUpTo(TotalSkillInputs, MaxTotalSkills)
  /\ years_exp = 0
  /\ skill \in TotalSkillArguments
  /\ normalized = NoResult
  /\ matcher_normalized = NoResult
  /\ gap_report = NoResult
  /\ trajectory = NoResult
  /\ roadmap = NoResult
  /\ match_report = NoResult
  /\ renormalized = NoResult
  /\ recommended = NoResult
  /\ resources = NoResult
  /\ calls = <<>>
  /\ frames = <<>>
  /\ tables = Tables
  /\ db = NoRows
  /\ response = NoResponse
  /\ outbox = {}
  /\ now = 0
  /\ requests = <<>>

NextTotal ==
  \/ NormalizeSkill
  \/ MatcherNormalizeSkill
  \/ DetectSkillGaps
  \/ MapCareerTrajectory
  \/ GenerateRoadmap
  \/ MatchSkillsToCareer
  \/ RecommendProjects
  \/ RecommendResources

SpecTotal == InitTotal /\ [][NextTotal]_vars

\* The call has not been made, or it has returned a result.
NoError(result) == ~Raised(result) /\ (result.returned \/ result = NoResult)

\* C16: none of normalize_skill, detect_skill_gaps, map_career_trajectory,
\* generate_roadmap, match_skills_to_career, recommend_projects and
\* recommend_resources ends in an error, a division by zero included, on any
\* goal, skill or skill list, the empty string and the empty list included.
C16_NoError ==
  /\ NoError(normalized)
  /\ NoError(matcher_normalized)
  /\ NoError(gap_report)
  /\ NoError(trajectory)
  /\ NoError(roadmap)
  /\ NoError(match_report)
  /\ NoError(recommended)
  /\ NoError(resources)

C16_Witness ==
  /\ career_goal = ""
  /\ current_skills = <<>>
  /\ skill = ""
  /\ normalized.returned /\ normalized.value = ""
  /\ matcher_normalized.returned /\ matcher_normalized.value = ""
  /\ gap_report.returned
  /\ gap_report.skill_gaps = <<"Python", "JavaScript", "SQL">>
  /\ gap_report.completion_percentage = [num |-> 0, den |-> 1]
  /\ trajectory.returned /\ trajectory.total_steps = 4
  /\ roadmap.returned /\ Len(roadmap.phases) = 2
  /\ match_report.returned
  /\ match_report.matched_skills = {}
  /\ match_report.match_score = [num |-> 0, den |-> 1]
  /\ recommended.returned /\ recommended.value = <<>>
  /\ resources.returned /\ Len(resources.value) = 5

-----------------------------------------------------------------------------
(* Concurrent calls.  The routes are plain functions, which the server runs
   on worker threads; each request constructs its own CareerAnalyzer,
   RoadmapGenerator or SkillMatcher.  detect_skill_gaps, and with it the
   first half of generate_roadmap, is taken one loop iteration at a time. *)

MaxConcurrentSkills == 1

Callers == {1, 2}

ConcurrentGoalInputs == {"backend", "Astronaut"}

\* The goal of the concurrent generate_roadmap calls: with its three
\* required skills a roadmap has at most two phases.
ConcurrentRoadmapGoals == {"Astronaut"}

ConcurrentSkillInputs == {"Python", "postgres"}

ConcurrentSkillArguments == {"python", "COBOL"}

CallInputs ==
  {[op |-> op, career_goal |-> goal, current_skills |-> skills, skill |-> ""]
     : op \in {"detect_skill_gaps", "match_skills_to_career"},
       goal \in ConcurrentGoalInputs,
       skills \in SeqsUpTo(ConcurrentSkillInputs, MaxConcurrentSkills)}
    \cup {[op |-> "generate_roadmap", career_goal |-> goal,
           current_skills |-> skills, skill |-> ""]
            : goal \in ConcurrentRoadmapGoals,
              skills \in SeqsUpTo(ConcurrentSkillInputs, MaxConcurrentSkills)}
    \cup {[op |-> "recommend_resources", career_goal |-> "",
           current_skills |-> <<>>, skill |-> sk]
            : sk \in ConcurrentSkillArguments}

\* The frame of the local variables of a call that shares them with
\* every other call
FrameOf_Shared(c) == 1

\* The frame that holds the local variables of the call of caller c: each
\* call has its own.
FrameOf(c) == c

NoFrame ==
  [needed_skills |-> <<>>, normalized_current |-> {}, gaps |-> <<>>,
   needed_set |-> {}, i |-> 0]

\* goal_lower = career_goal.lower(); needed_skills = career_skill_map.get(...)
\* normalized_current = set()
LookUpNeededSkills(c) ==
  /\ calls[c].pc = "call"
  /\ calls[c].op \in {"detect_skill_gaps", "generate_roadmap"}
  /\ frames' =
       [frames EXCEPT ![FrameOf(c)] =
          [needed_skills |->
             DictGet(tables.career_skill_map, Lower(calls[c].career_goal),
                     DefaultNeededSkills),
           normalized_current |-> {},
           gaps |-> <<>>,
           needed_set |-> {},
           i |-> 1]]
  /\ calls' = [calls EXCEPT ![c].pc = "normalize"]
  /\ UNCHANGED <<inputs, api, others, tables, normalized, matcher_normalized,
                 gap_report, trajectory, roadmap, match_report>>

\* One iteration of "for skill in current_skills", or its end.
NormalizeCurrentSkill(c) ==
  /\ calls[c].pc = "normalize"
  /\ LET frame == frames[FrameOf(c)]
         skills == calls[c].current_skills
     IN  IF frame.i <= Len(skills)
         THEN LET sk == skills[frame.i]
                  normalized_skill == DictGet(tables.skill_aliases, Lower(sk), sk)
              IN  /\ frames' =
                       [frames EXCEPT ![FrameOf(c)] =
                          [frame EXCEPT
                             !.normalized_current = @ \cup {Lower(normalized_skill)},
                             !.i = @ + 1]]
                  /\ calls' = calls
         ELSE /\ frames' = [frames EXCEPT ![FrameOf(c)] = [frame EXCEPT !.i = 1]]
              /\ calls' = [calls EXCEPT ![c].pc = "gaps"]
  /\ UNCHANGED <<inputs, api, others, tables, normalized, matcher_normalized,
                 gap_report, trajectory, roadmap, match_report>>

\* One iteration of "for skill in needed_skills", or its end.
CheckNeededSkill(c) ==
  /\ calls[c].pc = "gaps"
  /\ LET frame == frames[FrameOf(c)]
     IN  IF frame.i <= Len(frame.needed_skills)
         THEN LET sk == frame.needed_skills[frame.i]
                  skill_lower == Lower(sk)
              IN  /\ frames' =
                       [frames EXCEPT ![FrameOf(c)] =
                          [frame EXCEPT
                             !.needed_set = @ \cup {skill_lower},
                             !.gaps = IF skill_lower \notin frame.normalized_current
                                      THEN Append(@, sk) ELSE @,
                             !.i = @ + 1]]
                  /\ calls' = calls
         ELSE /\ frames' = frames
              /\ calls' = [calls EXCEPT ![c].pc = "return"]
  /\ UNCHANGED <<inputs, api, others, tables, normalized, matcher_normalized,
                 gap_report, trajectory, roadmap, match_report>>

\* The return of detect_skill_gaps, to the caller or to generate_roadmap.
ReturnGapReport(c) ==
  /\ calls[c].pc = "return"
  /\ LET frame == frames[FrameOf(c)]
         percentage == CompletionPercentage(frame.normalized_current, frame.needed_set)
         report == IF Raised(percentage) THEN percentage
                   ELSE [returned |-> TRUE,
                         career_goal |-> calls[c].career_goal,
                         current_skills |-> calls[c].current_skills,
                         skill_gaps |-> frame.gaps,
                         proficiency_gaps |-> Len(frame.gaps),
                         completion_percentage |-> percentage]
     IN  calls' =
           [calls EXCEPT
              ![c].gaps = report,
              ![c].result = IF calls[c].op = "detect_skill_gaps" THEN report ELSE @,
              ![c].pc = IF calls[c].op = "detect_skill_gaps" /\ ~Raised(report)
                        THEN "done" ELSE "phases"]
  /\ UNCHANGED <<inputs, api, others, frames, tables, normalized, matcher_normalized,
                 gap_report, trajectory, roadmap, match_report>>

\* The rest of generate_roadmap.
CreatePhases(c) ==
  /\ calls[c].pc = "phases"
  /\ calls[c].op = "generate_roadmap"
  /\ \E phases \in create_phases(calls[c].career_goal, calls[c].gaps.skill_gaps) :
       calls' =
         [calls EXCEPT
            ![c].result =
               [returned |-> TRUE,
                goal |-> calls[c].career_goal,
                phases |-> phases,
                total_duration |-> estimate_duration(Len(calls[c].gaps.skill_gaps)),
                milestone_count |-> 4,
                projects_count |-> 8],
            ![c].pc = "done"]
  /\ UNCHANGED <<inputs, api, others, frames, tables, normalized, matcher_normalized,
                 gap_report, trajectory, roadmap, match_report>>

\* match_skills_to_career, which has no loop.
MatchSkills(c) ==
  /\ calls[c].pc = "call"
  /\ calls[c].op = "match_skills_to_career"
  /\ LET goal_key == normalize_goal(calls[c].career_goal)
         target_skills == DictGet(tables.skill_taxonomy, goal_key, <<>>)
         skills == calls[c].current_skills
         skill_set == {Lower(skills[i]) : i \in DOMAIN skills}
         target_set == {Lower(target_skills[i]) : i \in DOMAIN target_skills}
         matched == skill_set \cap target_set
         missing == target_set \ skill_set
         match_score == MatchScore(matched, target_set)
     IN  calls' =
           [calls EXCEPT
              ![c].result =
                 IF Raised(match_score) THEN match_score
                 ELSE [returned |-> TRUE,
                       career_goal |-> calls[c].career_goal,
                       target_skills |-> target_skills,
                       matched_skills |-> matched,
                       missing_skills |-> missing,
                       match_score |-> Round2(match_score),
                       readiness_level |-> calculate_readiness(match_score)],
              ![c].pc = "done"]
  /\ UNCHANGED <<inputs, api, others, frames, tables, normalized, matcher_normalized,
                 gap_report, trajectory, roadmap, match_report>>

\* recommend_resources, which has no loop.
LookUpResources(c) ==
  /\ calls[c].pc = "call"
  /\ calls[c].op = "recommend_resources"
  /\ LET skill_lower == Lower(calls[c].skill)
     IN  calls' =
           [calls EXCEPT
              ![c].result =
                 [returned |-> TRUE,
                  value |-> IF skill_lower \in DOMAIN tables.resources_map
                            THEN tables.resources_map[skill_lower]
                            ELSE FallbackResources(calls[c].skill)],
              ![c].pc = "done"]
  /\ UNCHANGED <<inputs, api, others, frames, tables, normalized, matcher_normalized,
                 gap_report, trajectory, roadmap, match_report>>

InitConcurrent ==
  /\ career_goal = ""
  /\ current_skills = <<>>
  /\ years_exp = 0
  /\ skill = ""
  /\ normalized = NoResult
  /\ matcher_normalized = NoResult
  /\ gap_report = NoResult
  /\ trajectory = NoResult
  /\ roadmap = NoResult
  /\ match_report = NoResult
  /\ renormalized = NoResult
  /\ recommended = NoResult
  /\ resources = NoResult
  /\ \E arguments \in [Callers -> CallInputs] :
       calls = [c \in Callers |->
                  [op |-> arguments[c].op,
                   career_goal |-> arguments[c].career_goal,
                   current_skills |-> arguments[c].current_skills,
                   skill |-> arguments[c].skill,
                   pc |-> "call",
                   gaps |-> NoResult,
                   result |-> NoResult]]
  /\ frames = [c \in Callers |-> NoFrame]
  /\ tables = Tables
  /\ db = NoRows
  /\ response = NoResponse
  /\ outbox = {}
  /\ now = 0
  /\ requests = <<>>

NextConcurrent ==
  \E c \in Callers :
    \/ LookUpNeededSkills(c)
    \/ NormalizeCurrentSkill(c)
    \/ CheckNeededSkill(c)
    \/ ReturnGapReport(c)
    \/ CreatePhases(c)
    \/ MatchSkills(c)
    \/ LookUpResources(c)

SpecConcurrent == InitConcurrent /\ [][NextConcurrent]_vars

\* The result the call can have when it runs alone.
IsResultAlone(call) ==
  CASE call.op = "detect_skill_gaps" ->
         call.result = detect_skill_gaps(call.career_goal, call.current_skills)
    [] call.op = "generate_roadmap" ->
         call.result \in generate_roadmap(call.career_goal, call.current_skills, 0)
    [] call.op = "match_skills_to_career" ->
         call.result = match_skills_to_career(call.current_skills, call.career_goal)
    [] call.op = "recommend_resources" ->
         call.result.value = recommend_resources(call.skill)

\* C17: however concurrent calls interleave, no step changes a table or the
\* skill list a call was given, and each call returns what it returns when
\* it runs alone on its arguments.
C17_NoInterference ==
  /\ [](\A c \in Callers : calls[c].pc = "done" => IsResultAlone(calls[c]))
  /\ [][/\ tables' = tables
        /\ \A c \in Callers :
             /\ calls'[c].current_skills = calls[c].current_skills
             /\ calls'[c].career_goal = calls[c].career_goal]_vars

C17_Witness ==
  /\ calls[1].op = "detect_skill_gaps"
  /\ calls[1].career_goal = "backend"
  /\ calls[1].current_skills = <<"postgres">>
  /\ calls[1].pc = "done"
  /\ calls[1].result.skill_gaps =
       <<"Python", "API Framework", "NoSQL", "Cloud Platform">>
  /\ calls[2].op = "generate_roadmap"
  /\ calls[2].career_goal = "Astronaut"
  /\ calls[2].current_skills = <<"Python">>
  /\ calls[2].pc = "gaps"
  /\ frames[2].i = 2
  /\ tables = Tables

-----------------------------------------------------------------------------
(* Adding skills *)

\* The lists that are appended to current_skills.
AddedSkillLists ==
  {<<>>, <<"fastapi">>, <<"MongoDB", "aws">>, <<"COBOL">>, <<"python">>}

\* a is b with some of its entries left out.
RECURSIVE IsSubsequence(_, _)
IsSubsequence(a, b) ==
  IF a = <<>> THEN TRUE
  ELSE IF b = <<>> THEN FALSE
  ELSE IF Head(a) = Head(b) THEN IsSubsequence(Tail(a), Tail(b))
  ELSE IsSubsequence(a, Tail(b))

\* C26: the gaps of current_skills followed by more skills are a
\* subsequence of the gaps of current_skills alone.
C26_GapsMonotone ==
  gap_report.returned =>
    \A added \in AddedSkillLists :
      IsSubsequence(detect_skill_gaps(career_goal, current_skills \o added).skill_gaps,
                    gap_report.skill_gaps)

C26_Witness ==
  /\ gap_report.returned
  /\ career_goal = "backend"
  /\ current_skills = <<"Python">>
  /\ gap_report.skill_gaps = <<"API Framework", "SQL", "NoSQL", "Cloud Platform">>
  /\ detect_skill_gaps(career_goal, current_skills \o <<"MongoDB", "aws">>).skill_gaps
       = <<"API Framework", "SQL">>

-----------------------------------------------------------------------------
(* The API layer: the profile route of auth_routes.py and the routes of
   ai_routes.py, on the rows of the store.  The user is the one
   get_current_user resolved from the token.  Row columns no route reads
   (bio, updated_at, completed_phases) are left out. *)

\* Python's None, where a string is optional.
None == "None"

\* A DateTime column holding None; times are counted in ticks from 0.
NoDateTime == -1

\* The bound on the rows of the roadmaps table.
MaxRoadmaps == 2

UserIds == {1, 2}

\* The users signed up before the requests.
SignedUpUsers ==
  <<[id |-> 1, email |-> "ann@example.com", full_name |-> "Ann",
     password_hash |-> "hash(old-password)", reset_otp |-> None,
     otp_expiry |-> NoDateTime, otp_attempts |-> 0],
    [id |-> 2, email |-> "bob@example.com", full_name |-> "Bob",
     password_hash |-> "hash(old-password)", reset_otp |-> None,
     otp_expiry |-> NoDateTime, otp_attempts |-> 0]>>

\* The bodies of POST /profile.  Their gaps are in no project list, so
\* generate_roadmap has one outcome for each.
ProfileInputs ==
  {[career_goal |-> "Cloud Architect",
    current_skills |-> <<"aws", "Docker", "infrastructure as code">>,
    years_experience |-> 0, linkedin_url |-> None, github_url |-> None],
   [career_goal |-> "cloud",
    current_skills |-> <<"AWS", "docker", "Infrastructure As Code", "security">>,
    years_experience |-> 3, linkedin_url |-> "https://linkedin.com/in/ann",
    github_url |-> "https://github.com/ann"]}

RouteGoalInputs == {"backend"}

RouteSkillInputs == {"", "COBOL"}

\* HTTPException(status_code=..., detail=...)
HTTPException(route, user, status_code, detail) ==
  [route |-> route, user |-> user, status |-> status_code, detail |-> detail]

\* A returned body.
Ok(route, user, body) ==
  [route |-> route, user |-> user, status |-> 200, body |-> body]

\* The profile query without its filter
ProfilesOf_AnyUser(store, user) == store.profiles

\* db.query(Profile).filter(Profile.user_id == current_user.id)
ProfilesOf(store, user) ==
  SelectSeq(store.profiles, LAMBDA row : row.user_id = user)

\* db.query(Roadmap).filter(Roadmap.user_id == current_user.id)
RoadmapsOf(store, user) ==
  SelectSeq(store.roadmaps, LAMBDA row : row.user_id = user)

\* POST /api/auth/profile: the store and the response it ends with.
create_profile(store, user, profile) ==
  LET existing == {n \in DOMAIN store.profiles : store.profiles[n].user_id = user}
  IN  IF existing # {}
      THEN LET n == CHOOSE m \in existing : \A k \in existing : m <= k
               row == [store.profiles[n] EXCEPT
                         !.career_goal = profile.career_goal,
                         !.current_skills = profile.current_skills,
                         !.years_experience = profile.years_experience,
                         !.linkedin_url = profile.linkedin_url,
                         !.github_url = profile.github_url]
           IN  [db |-> [store EXCEPT !.profiles[n] = row],
                response |-> Ok("profile", user, row)]
      ELSE LET row == [id |-> Len(store.profiles) + 1,
                       user_id |-> user,
                       career_goal |-> profile.career_goal,
                       current_skills |-> profile.current_skills,
                       years_experience |-> profile.years_experience,
                       linkedin_url |-> profile.linkedin_url,
                       github_url |-> profile.github_url]
           IN  [db |-> [store EXCEPT !.profiles = Append(@, row)],
                response |-> Ok("profile", user, row)]

\* GET /api/analyze-career
analyze_career(store, user, goal) ==
  LET rows == ProfilesOf(store, user)
  IN  IF rows = <<>>
      THEN HTTPException("analyze-career", user, 404, "Profile not found")
      ELSE LET profile == rows[1]
           IN  Ok("analyze-career", user,
                  [analysis |-> detect_skill_gaps(goal, profile.current_skills),
                   trajectory |-> map_career_trajectory(goal)])

\* POST /api/generate-roadmap: every store and response it can end with.
generate_roadmap_route(store, user, time) ==
  LET rows == ProfilesOf(store, user)
  IN  IF rows = <<>>
      THEN {[db |-> store,
             response |-> HTTPException("generate-roadmap", user, 404,
                                        "Profile not found")]}
      ELSE LET profile == rows[1]
           IN  {LET db_roadmap == [id |-> Len(store.roadmaps) + 1,
                                   user_id |-> user,
                                   goal |-> profile.career_goal,
                                   phases |-> roadmap_data.phases,
                                   created_at |-> time]
                IN  [db |-> [store EXCEPT !.roadmaps = Append(@, db_roadmap)],
                     response |-> Ok("generate-roadmap", user,
                                     [roadmap_id |-> db_roadmap.id,
                                      roadmap |-> roadmap_data])]
                : roadmap_data \in generate_roadmap(profile.career_goal,
                                                    profile.current_skills,
                                                    profile.years_experience)}

\* GET /api/user-roadmap: every response it can give.  The query has no
\* ORDER BY, so first() can be any of the user's rows.
get_user_roadmap(store, user) ==
  LET rows == RoadmapsOf(store, user)
  IN  IF rows = <<>>
      THEN {HTTPException("user-roadmap", user, 404, "Roadmap not found")}
      ELSE {Ok("user-roadmap", user,
               [id |-> rows[n].id, goal |-> rows[n].goal,
                phases |-> rows[n].phases, created_at |-> rows[n].created_at])
            : n \in DOMAIN rows}

\* GET /api/match-skills
match_skills(store, user, goal) ==
  LET rows == ProfilesOf(store, user)
  IN  IF rows = <<>>
      THEN HTTPException("match-skills", user, 404, "Profile not found")
      ELSE Ok("match-skills", user,
              match_skills_to_career(rows[1].current_skills, goal))

\* POST /api/recommend-projects
recommend_projects_route(store, user) ==
  LET rows == ProfilesOf(store, user)
  IN  IF rows = <<>>
      THEN HTTPException("recommend-projects", user, 404, "Profile not found")
      ELSE Ok("recommend-projects", user,
              [projects |-> recommend_projects(rows[1].current_skills,
                                               rows[1].career_goal)])

\* GET /api/recommend-resources; "if skill" fails on None and on "".
recommend_resources_route(store, user, sk) ==
  IF sk # ""
  THEN Ok("recommend-resources", user,
          [skill |-> sk, resources |-> recommend_resources(sk)])
  ELSE LET rows == ProfilesOf(store, user)
       IN  IF rows = <<>>
           THEN HTTPException("recommend-resources", user, 404, "Profile not found")
           ELSE LET profile == rows[1]
                    gaps == detect_skill_gaps(profile.career_goal,
                                              profile.current_skills)
                IN  Ok("recommend-resources", user,
                       [career_goal |-> profile.career_goal,
                        skills_to_learn |-> gaps.skill_gaps,
                        resources |-> [g \in Range(gaps.skill_gaps) |->
                                         recommend_resources(g)]])

\* GET /api/learning-path: every response it can give.
get_learning_path(store, user) ==
  LET rows == ProfilesOf(store, user)
  IN  IF rows = <<>>
      THEN {HTTPException("learning-path", user, 404, "Profile not found")}
      ELSE LET profile == rows[1]
               gaps == detect_skill_gaps(profile.career_goal, profile.current_skills)
               roadmaps == RoadmapsOf(store, user)
               body(phases) ==
                 [career_goal |-> profile.career_goal,
                  current_skills |->
                    [i \in DOMAIN profile.current_skills |->
                       [skill |-> profile.current_skills[i], status |-> "learned"]],
                  skills_to_learn |->
                    [i \in DOMAIN gaps.skill_gaps |->
                       [skill |-> gaps.skill_gaps[i],
                        resources |-> recommend_resources(gaps.skill_gaps[i]),
                        status |-> "to-learn"]],
                  total_skills_needed |->
                    Len(gaps.skill_gaps) + Len(profile.current_skills),
                  progress_percentage |-> gaps.completion_percentage,
                  roadmap |-> phases]
           IN  IF roadmaps = <<>>
               THEN {Ok("learning-path", user, body(<<None>>))}
               ELSE {Ok("learning-path", user, body(roadmaps[n].phases))
                     : n \in DOMAIN roadmaps}

CreateProfile ==
  \E user \in UserIds, profile \in ProfileInputs :
    LET done == create_profile(db, user, profile)
    IN  /\ db' = done.db
        /\ response' = done.response
        /\ UNCHANGED <<inputs, concurrent, others, outbox, now, requests,
                       normalized, matcher_normalized, gap_report, trajectory,
                       roadmap, match_report>>

AnalyzeCareer ==
  \E user \in UserIds, goal \in RouteGoalInputs :
    /\ response' = analyze_career(db, user, goal)
    /\ UNCHANGED <<inputs, concurrent, others, db, outbox, now, requests,
                   normalized, matcher_normalized, gap_report, trajectory,
                   roadmap, match_report>>

GenerateRoadmapRoute ==
  \E user \in UserIds :
    /\ Len(db.roadmaps) < MaxRoadmaps
    /\ \E done \in generate_roadmap_route(db, user, now) :
         /\ db' = done.db
         /\ response' = done.response
    /\ UNCHANGED <<inputs, concurrent, others, outbox, now, requests,
                   normalized, matcher_normalized, gap_report, trajectory,
                   roadmap, match_report>>

GetUserRoadmap ==
  \E user \in UserIds :
    /\ response' \in get_user_roadmap(db, user)
    /\ UNCHANGED <<inputs, concurrent, others, db, outbox, now, requests,
                   normalized, matcher_normalized, gap_report, trajectory,
                   roadmap, match_report>>

MatchSkillsRoute ==
  \E user \in UserIds, goal \in RouteGoalInputs :
    /\ response' = match_skills(db, user, goal)
    /\ UNCHANGED <<inputs, concurrent, others, db, outbox, now, requests,
                   normalized, matcher_normalized, gap_report, trajectory,
                   roadmap, match_report>>

RecommendProjectsRoute ==
  \E user \in UserIds :
    /\ response' = recommend_projects_route(db, user)
    /\ UNCHANGED <<inputs, concurrent, others, db, outbox, now, requests,
                   normalized, matcher_normalized, gap_report, trajectory,
                   roadmap, match_report>>

RecommendResourcesRoute ==
  \E user \in UserIds, sk \in RouteSkillInputs :
    /\ response' = recommend_resources_route(db, user, sk)
    /\ UNCHANGED <<inputs, concurrent, others, db, outbox, now, requests,
                   normalized, matcher_normalized, gap_report, trajectory,
                   roadmap, match_report>>

GetLearningPath ==
  \E user \in UserIds :
    /\ response' \in get_learning_path(db, user)
    /\ UNCHANGED <<inputs, concurrent, others, db, outbox, now, requests,
                   normalized, matcher_normalized, gap_report, trajectory,
                   roadmap, match_report>>

InitRoutes ==
  /\ career_goal = ""
  /\ current_skills = <<>>
  /\ years_exp = 0
  /\ skill = ""
  /\ normalized = NoResult
  /\ matcher_normalized = NoResult
  /\ gap_report = NoResult
  /\ trajectory = NoResult
  /\ roadmap = NoResult
  /\ match_report = NoResult
  /\ renormalized = NoResult
  /\ recommended = NoResult
  /\ resources = NoResult
  /\ calls = <<>>
  /\ frames = <<>>
  /\ tables = Tables
  /\ db = [NoRows EXCEPT !.users = SignedUpUsers]
  /\ response = NoResponse
  /\ outbox = {}
  /\ now = 0
  /\ requests = <<>>

NextRoutes ==
  \/ CreateProfile
  \/ AnalyzeCareer
  \/ GenerateRoadmapRoute
  \/ GetUserRoadmap
  \/ MatchSkillsRoute
  \/ RecommendProjectsRoute
  \/ RecommendResourcesRoute
  \/ GetLearningPath

SpecRoutes == InitRoutes /\ [][NextRoutes]_vars

-----------------------------------------------------------------------------
(* Properties of the routes *)

\* The routes that answer from the profile whatever their parameters.
ProfileRoutes ==
  {"analyze-career", "generate-roadmap", "match-skills", "recommend-projects",
   "learning-path"}

\* The profiles table holds no row of the user.
NoProfileRow(store, user) ==
  \A i \in 1..Len(store.profiles) : store.profiles[i].user_id # user

\* Every profile-reading route answers 404 for the user, and
\* generate-roadmap leaves the store as it is.
AllAnswerNotFound(store, user) ==
  /\ \A goal \in RouteGoalInputs :
       /\ analyze_career(store, user, goal).status = 404
       /\ match_skills(store, user, goal).status = 404
  /\ \A done \in generate_roadmap_route(store, user, now) :
       /\ done.response.status = 404
       /\ done.response.detail = "Profile not found"
       /\ done.db = store
  /\ recommend_projects_route(store, user).status = 404
  /\ recommend_resources_route(store, user, "").status = 404
  /\ \A answer \in get_learning_path(store, user) : answer.status = 404

\* C21: for a user without a profile row, analyze-career, generate-roadmap,
\* match-skills, recommend-projects, learning-path and recommend-resources
\* without a skill answer 404, and the request leaves the store, the
\* roadmaps table included, as it was.
C21_NoProfileNotFound ==
  /\ [](\A user \in UserIds :
          NoProfileRow(db, user) => AllAnswerNotFound(db, user))
  /\ [][(/\ NoProfileRow(db, response'.user)
         /\ \/ response'.route \in ProfileRoutes
            \/ /\ response'.route = "recommend-resources"
               /\ response'.status # 200)
          => /\ response'.status = 404
             /\ response'.detail = "Profile not found"
             /\ db' = db]_vars

C21_Witness ==
  /\ response.route = "generate-roadmap"
  /\ response.user = 2
  /\ response.status = 404
  /\ NoProfileRow(db, 2)
  /\ ~NoProfileRow(db, 1)
  /\ Len(db.roadmaps) = 1
  /\ db.roadmaps[1].user_id = 1

\* C22 as claimed: GET /user-roadmap answers with the goal and the phases of
\* the row the user's most recent generate-roadmap call added.
C22_MostRecentRoadmap ==
  (response.route = "user-roadmap" /\ response.status = 200) =>
    LET rows == RoadmapsOf(db, response.user)
        latest == rows[Len(rows)]
    IN  /\ response.body.goal = latest.goal
        /\ response.body.phases = latest.phases

-----------------------------------------------------------------------------
(* POST /api/auth/profile requests in flight together.  A request reads
   the user's row, then commits its update or its insert; other requests
   may run between the two steps.  The profiles table is created from the
   Profile model, whose user_id column is declared unique. *)

MaxProfileRequests == 3

\* existing_profile of a request that found no row.
NoRow == 0

\* Column(Integer, ForeignKey("users.id"), unique=True) not enforced
UniqueViolation_NotEnforced(store, user) == FALSE

\* Column(Integer, ForeignKey("users.id"), unique=True): an insert of a second
\* row of the user is refused.
UniqueViolation(store, user) ==
  \E n \in DOMAIN store.profiles : store.profiles[n].user_id = user

\* db.query(Profile).filter(Profile.user_id == current_user.id).first(): the
\* ids it can return.
FirstProfile(store, user) ==
  LET rows == ProfilesOf(store, user)
  IN  IF rows = <<>> THEN {NoRow} ELSE {rows[n].id : n \in DOMAIN rows}

\* The branch on existing_profile and db.commit(): the store and the
\* response the request ends with.
commit_profile(store, request) ==
  IF request.existing_profile # NoRow
  THEN LET n == request.existing_profile
           row == [store.profiles[n] EXCEPT
                     !.career_goal = request.profile.career_goal,
                     !.current_skills = request.profile.current_skills,
                     !.years_experience = request.profile.years_experience,
                     !.linkedin_url = request.profile.linkedin_url,
                     !.github_url = request.profile.github_url]
       IN  [db |-> [store EXCEPT !.profiles[n] = row],
            response |-> Ok("profile", request.user, row)]
  ELSE IF UniqueViolation(store, request.user)
  THEN [db |-> store,
        response |-> HTTPException("profile", request.user, 500,
                                   "Internal Server Error")]
  ELSE LET row == [id |-> Len(store.profiles) + 1,
                   user_id |-> request.user,
                   career_goal |-> request.profile.career_goal,
                   current_skills |-> request.profile.current_skills,
                   years_experience |-> request.profile.years_experience,
                   linkedin_url |-> request.profile.linkedin_url,
                   github_url |-> request.profile.github_url]
       IN  [db |-> [store EXCEPT !.profiles = Append(@, row)],
            response |-> Ok("profile", request.user, row)]

\* A client posts a profile.
PostProfile ==
  /\ Len(requests) < MaxProfileRequests
  /\ \E user \in UserIds, profile \in ProfileInputs :
       requests' = Append(requests,
                          [user |-> user, profile |-> profile, pc |-> "query",
                           existing_profile |-> NoRow])
  /\ UNCHANGED <<inputs, db, response, outbox, now, normalized,
                 matcher_normalized, gap_report, trajectory, roadmap,
                 match_report, others, concurrent>>

QueryProfile ==
  /\ \E r \in DOMAIN requests :
       /\ requests[r].pc = "query"
       /\ \E found \in FirstProfile(db, requests[r].user) :
            requests' = [requests EXCEPT ![r].pc = "commit",
                                         ![r].existing_profile = found]
  /\ UNCHANGED <<inputs, db, response, outbox, now, normalized,
                 matcher_normalized, gap_report, trajectory, roadmap,
                 match_report, others, concurrent>>

CommitProfile ==
  /\ \E r \in DOMAIN requests :
       /\ requests[r].pc = "commit"
       /\ LET done == commit_profile(db, requests[r])
          IN  /\ db' = done.db
              /\ response' = done.response
       /\ requests' = [requests EXCEPT ![r].pc = "done"]
  /\ UNCHANGED <<inputs, outbox, now, normalized, matcher_normalized,
                 gap_report, trajectory, roadmap, match_report, others,
                 concurrent>>

InitProfile ==
  /\ career_goal = ""
  /\ current_skills = <<>>
  /\ years_exp = 0
  /\ skill = ""
  /\ normalized = NoResult
  /\ matcher_normalized = NoResult
  /\ gap_report = NoResult
  /\ trajectory = NoResult
  /\ roadmap = NoResult
  /\ match_report = NoResult
  /\ renormalized = NoResult
  /\ recommended = NoResult
  /\ resources = NoResult
  /\ calls = <<>>
  /\ frames = <<>>
  /\ tables = Tables
  /\ db = [NoRows EXCEPT !.users = SignedUpUsers]
  /\ response = NoResponse
  /\ outbox = {}
  /\ now = 0
  /\ requests = <<>>

NextProfile == PostProfile \/ QueryProfile \/ CommitProfile

SpecProfile == InitProfile /\ [][NextProfile]_vars

\* The positions of the user's rows in the profiles table.
ProfileRowsOf(store, user) ==
  {n \in DOMAIN store.profiles : store.profiles[n].user_id = user}

\* The step is the commit of request r.
Commits(r) ==
  /\ r \in DOMAIN requests
  /\ requests[r].pc = "commit"
  /\ requests'[r].pc = "done"

\* C30: whatever the interleaving of POST /profile requests, the profiles
\* table holds at most one row per user; a request that found the user's row
\* overwrites career_goal, current_skills, years_experience, linkedin_url
\* and github_url of that row, leaves its id and user_id and every other row
\* as they were, and adds no row.
C30_OneProfilePerUser ==
  /\ [](\A user \in UserIds : Cardinality(ProfileRowsOf(db, user)) <= 1)
  /\ [][\A r \in 1..MaxProfileRequests :
          (Commits(r) /\ requests[r].existing_profile # NoRow) =>
            LET n == requests[r].existing_profile
                profile == requests[r].profile
            IN  /\ Len(db'.profiles) = Len(db.profiles)
                /\ \A m \in DOMAIN db.profiles :
                     m # n => db'.profiles[m] = db.profiles[m]
                /\ db'.profiles[n] =
                     [id |-> db.profiles[n].id,
                      user_id |-> requests[r].user,
                      career_goal |-> profile.career_goal,
                      current_skills |-> profile.current_skills,
                      years_experience |-> profile.years_experience,
                      linkedin_url |-> profile.linkedin_url,
                      github_url |-> profile.github_url]
                /\ response'.status = 200
                /\ response'.body = db'.profiles[n]]_vars

\* Two requests of one user both found no row; one inserted, the other was
\* refused, and a third request then updated the row in place.
C30_Witness ==
  /\ Len(requests) = 3
  /\ \A r \in 1..3 : requests[r].user = 1 /\ requests[r].pc = "done"
  /\ requests[1].existing_profile = NoRow
  /\ requests[2].existing_profile = NoRow
  /\ requests[3].existing_profile = 1
  /\ requests[3].profile # requests[1].profile
  /\ requests[3].profile # requests[2].profile
  /\ Len(db.profiles) = 1
  /\ db.profiles[1].career_goal = requests[3].profile.career_goal
  /\ response.status = 200

-----------------------------------------------------------------------------
(* Password reset: POST /api/auth/forgot-password, /verify-otp and
   /reset-password, with the clock that expires an OTP. *)

MaxTime == 3

\* otp_attempts has no upper limit in reset_password; requests that would
\* take it past this value are left out.
MaxAttempts == 4

\* timedelta(minutes=10), in ticks
OtpLifetime == 2

\* Values AuthService.generate_otp can return, and values a client submits.
Otps == {"123456", "654321"}

EmailInputs == {"ann@example.com", "nobody@example.com"}

PasswordInputs == {"abc", "secret1"}

\* AuthService.hash_password; the salt is left out.
hash_password(password) == "hash(" \o password \o ")"

\* db.query(User).filter(User.email == email).first(): the position of the
\* row, 0 when there is none.  User.email is unique.
UserByEmail(store, email) ==
  IF \E n \in DOMAIN store.users : store.users[n].email = email
  THEN CHOOSE n \in DOMAIN store.users : store.users[n].email = email
  ELSE 0

\* forgot-password answering 404 for an unknown email
forgot_password_NotFound(store, sent, email, time) ==
  LET n == UserByEmail(store, email)
  IN  IF n = 0
      THEN {[db |-> store, outbox |-> sent,
             response |-> HTTPException("forgot-password", email, 404,
                                        "User not found")]}
      ELSE {[db |-> [store EXCEPT !.users[n].reset_otp = otp,
                                  !.users[n].otp_expiry = time + OtpLifetime,
                                  !.users[n].otp_attempts = 0],
             outbox |-> sent \cup {[to |-> email, kind |-> "otp", otp |-> otp]},
             response |-> Ok("forgot-password", email,
                             [message |-> "If email exists, OTP has been sent"])]
            : otp \in Otps}

\* POST /api/auth/forgot-password: every store, outbox and response it can
\* end with, one per OTP generate_otp can draw.
forgot_password(store, sent, email, time) ==
  LET n == UserByEmail(store, email)
  IN  IF n = 0
      THEN {[db |-> store, outbox |-> sent,
             response |-> Ok("forgot-password", email,
                             [message |-> "If email exists, OTP has been sent"])]}
      ELSE {[db |-> [store EXCEPT !.users[n].reset_otp = otp,
                                  !.users[n].otp_expiry = time + OtpLifetime,
                                  !.users[n].otp_attempts = 0],
             outbox |-> sent \cup {[to |-> email, kind |-> "otp", otp |-> otp]},
             response |-> Ok("forgot-password", email,
                             [message |-> "If email exists, OTP has been sent"])]
            : otp \in Otps}

\* The checks verify_otp and reset_password share: the user, the stored
\* request and its expiry.  "pass" when they let the request through.
OtpRequestCheck(store, route, email, time) ==
  LET n == UserByEmail(store, email)
  IN  IF n = 0
      THEN [db |-> store,
            response |-> HTTPException(route, email, 404, "User not found")]
      ELSE IF store.users[n].reset_otp = None
                \/ store.users[n].otp_expiry = NoDateTime
      THEN [db |-> store,
            response |-> HTTPException(route, email, 400,
                                       "No password reset request found")]
      ELSE IF time > store.users[n].otp_expiry
      THEN [db |-> [store EXCEPT !.users[n].reset_otp = None,
                                 !.users[n].otp_expiry = NoDateTime],
            response |-> HTTPException(route, email, 400,
                                       "OTP has expired. Request a new one.")]
      ELSE [db |-> store, response |-> [route |-> route, status |-> 0]]

\* if user.reset_otp != otp: user.otp_attempts += 1
InvalidOtp(store, route, email) ==
  LET n == UserByEmail(store, email)
  IN  [db |-> [store EXCEPT !.users[n].otp_attempts = @ + 1],
       response |-> HTTPException(route, email, 400, "Invalid OTP")]

\* POST /api/auth/verify-otp
verify_otp(store, email, otp, time) ==
  LET n == UserByEmail(store, email)
      checked == OtpRequestCheck(store, "verify-otp", email, time)
  IN  IF checked.response.status # 0 THEN checked
      ELSE IF store.users[n].otp_attempts >= 3
      THEN [db |-> store,
            response |-> HTTPException("verify-otp", email, 429,
                           "Too many failed attempts. Request a new OTP.")]
      ELSE IF store.users[n].reset_otp # otp
      THEN InvalidOtp(store, "verify-otp", email)
      ELSE [db |-> store,
            response |-> Ok("verify-otp", email,
                            [message |-> "OTP verified successfully",
                             verified |-> TRUE])]

\* reset-password leaving the OTP stored after the change
reset_password_KeepsOtp(store, sent, email, otp, new_password, time) ==
  LET n == UserByEmail(store, email)
      checked == OtpRequestCheck(store, "reset-password", email, time)
  IN  IF checked.response.status # 0 THEN checked @@ [outbox |-> sent]
      ELSE IF store.users[n].reset_otp # otp
      THEN InvalidOtp(store, "reset-password", email) @@ [outbox |-> sent]
      ELSE IF Len(new_password) < 6
      THEN [db |-> store, outbox |-> sent,
            response |-> HTTPException("reset-password", email, 400,
                           "Password must be at least 6 characters long")]
      ELSE [db |-> [store EXCEPT
                      !.users[n].password_hash = hash_password(new_password),
                      !.users[n].otp_attempts = 0],
            outbox |-> sent \cup {[to |-> email, kind |-> "confirmation",
                                   otp |-> None]},
            response |-> Ok("reset-password", email,
                            [message |-> "Password reset successfully"])]

\* POST /api/auth/reset-password
reset_password(store, sent, email, otp, new_password, time) ==
  LET n == UserByEmail(store, email)
      checked == OtpRequestCheck(store, "reset-password", email, time)
  IN  IF checked.response.status # 0 THEN checked @@ [outbox |-> sent]
      ELSE IF store.users[n].reset_otp # otp
      THEN InvalidOtp(store, "reset-password", email) @@ [outbox |-> sent]
      ELSE IF Len(new_password) < 6
      THEN [db |-> store, outbox |-> sent,
            response |-> HTTPException("reset-password", email, 400,
                           "Password must be at least 6 characters long")]
      ELSE [db |-> [store EXCEPT
                      !.users[n].password_hash = hash_password(new_password),
                      !.users[n].reset_otp = None,
                      !.users[n].otp_expiry = NoDateTime,
                      !.users[n].otp_attempts = 0],
            outbox |-> sent \cup {[to |-> email, kind |-> "confirmation",
                                   otp |-> None]},
            response |-> Ok("reset-password", email,
                            [message |-> "Password reset successfully"])]

\* No row counts more failed attempts than MaxAttempts.
WithinAttempts(store) ==
  \A n \in DOMAIN store.users : store.users[n].otp_attempts <= MaxAttempts

ForgotPassword ==
  /\ \E email \in EmailInputs :
       \E done \in forgot_password(db, outbox, email, now) :
         /\ db' = done.db
         /\ outbox' = done.outbox
         /\ response' = done.response
  /\ UNCHANGED <<inputs, now, requests, normalized, matcher_normalized,
                 gap_report, trajectory, roadmap, match_report, others,
                 concurrent>>

VerifyOtp ==
  /\ \E email \in EmailInputs, otp \in Otps :
       LET done == verify_otp(db, email, otp, now)
       IN  /\ db' = done.db
           /\ response' = done.response
  /\ UNCHANGED <<inputs, outbox, now, requests, normalized,
                 matcher_normalized, gap_report, trajectory, roadmap,
                 match_report, others, concurrent>>

ResetPassword ==
  /\ \E email \in EmailInputs, otp \in Otps, new_password \in PasswordInputs :
       LET done == reset_password(db, outbox, email, otp, new_password, now)
       IN  /\ WithinAttempts(done.db)
           /\ db' = done.db
           /\ outbox' = done.outbox
           /\ response' = done.response
  /\ UNCHANGED <<inputs, now, requests, normalized, matcher_normalized,
                 gap_report, trajectory, roadmap, match_report, others,
                 concurrent>>

\* Time passes.
Tick ==
  /\ now < MaxTime
  /\ now' = now + 1
  /\ UNCHANGED <<inputs, db, response, outbox, requests, normalized,
                 matcher_normalized, gap_report, trajectory, roadmap,
                 match_report, others, concurrent>>

InitAuth ==
  /\ career_goal = ""
  /\ current_skills = <<>>
  /\ years_exp = 0
  /\ skill = ""
  /\ normalized = NoResult
  /\ matcher_normalized = NoResult
  /\ gap_report = NoResult
  /\ trajectory = NoResult
  /\ roadmap = NoResult
  /\ match_report = NoResult
  /\ renormalized = NoResult
  /\ recommended = NoResult
  /\ resources = NoResult
  /\ calls = <<>>
  /\ frames = <<>>
  /\ tables = Tables
  /\ db = [NoRows EXCEPT !.users = SignedUpUsers]
  /\ response = NoResponse
  /\ outbox = {}
  /\ now = 0
  /\ requests = <<>>


NextAuth == ForgotPassword \/ VerifyOtp \/ ResetPassword \/ Tick

SpecAuth == InitAuth /\ [][NextAuth]_vars

-----------------------------------------------------------------------------
(* Properties of the password reset *)

\* The step is a request to the route; the clock stands still in it.
Requested(route) == response'.route = route /\ now' = now

\* No user row carries the email.
Unregistered(store, email) ==
  \A n \in DOMAIN store.users : store.users[n].email # email

\* Every OTP submission for the email is rejected for want of a reset
\* request and changes nothing.
NoRequestFound(store, sent, email, time) ==
  /\ \A otp \in Otps :
       LET done == verify_otp(store, email, otp, time)
       IN  /\ done.response.status = 400
           /\ done.response.detail = "No password reset request found"
           /\ done.db = store
  /\ \A otp \in Otps, new_password \in PasswordInputs :
       LET done == reset_password(store, sent, email, otp, new_password, time)
       IN  /\ done.response.status = 400
           /\ done.response.detail = "No password reset request found"
           /\ done.db = store
           /\ done.outbox = sent

\* C23 as claimed: once a user's otp_attempts has reached 3, no verify-otp
\* and no reset-password for that user succeeds and the password stays as
\* it is, until forgot-password is called.
C23_LockedAfterThreeFailures ==
  [][\A n \in DOMAIN db.users :
       (/\ Requested("verify-otp") \/ Requested("reset-password")
        /\ response'.user = db.users[n].email
        /\ db.users[n].reset_otp # None
        /\ db.users[n].otp_attempts >= 3)
         => /\ response'.status # 200
            /\ db'.users[n].password_hash = db.users[n].password_hash]_vars

C25_SameAnswer ==
  /\ [](\A email \in EmailInputs :
          \A done \in forgot_password(db, outbox, email, now) :
            /\ done.response.status = 200
            /\ done.response.body =
                 [message |-> "If email exists, OTP has been sent"]
            /\ Unregistered(db, email) =>
                 (done.db = db /\ done.outbox = outbox))
  /\ [][Requested("forgot-password") =>
          /\ response'.status = 200
          /\ response'.body = [message |-> "If email exists, OTP has been sent"]
          /\ Unregistered(db, response'.user) =>
               (db' = db /\ outbox' = outbox)]_vars

\* An unregistered email was answered after a registered one was sent an OTP.
C25_Witness ==
  /\ response.route = "forgot-password"
  /\ response.user = "nobody@example.com"
  /\ response.status = 200
  /\ Unregistered(db, "nobody@example.com")
  /\ db.users[1].reset_otp # None
  /\ \E otp \in Otps :
       [to |-> "ann@example.com", kind |-> "otp", otp |-> otp] \in outbox
  /\ \A mail \in outbox : mail.to # "nobody@example.com"

====
